---- MODULE Spec2Model ----
(***************************************************************************)
(* A model of the wallet session lifecycle of wdk-rn-core:                 *)
(*   - the credentials cache and the wallet setup flows of                 *)
(*     WalletSetupService (services/walletSetupService.ts),                *)
(*   - the worklet session store driven by WorkletService                  *)
(*     (services/workletService.ts),                                       *)
(*   - the two initialization hooks (the reducer state machine and the     *)
(*     ref/operation-id hook) and the provider's readiness derivation.     *)
(*                                                                         *)
(* Every asynchronous function is a task: a record whose pc names the      *)
(* await it is suspended at.  One action models one synchronous stretch    *)
(* of code, from the resumption of an await to the next await.             *)
(***************************************************************************)
EXTENDS Integers, Sequences, FiniteSets, TLC

\* ------------------------------------------------------------------ bounds
\* Concurrent calls of the WalletSetupService API considered by CacheSpec.
MaxTasks == 2
\* Credential generations (successful generateEntropyAndEncrypt results).
MaxGen == 1
\* Invocations of WorkletService.startWorklet considered.
MaxStarts == 2
\* Async functions of a hook pending at once.
MaxOps == 2
\* Calls of retry() by the consumer.
MaxRetries == 1
\* Calls of initializeWallet by a mounted hook.
MaxInits == 2
\* Wallet-initialization attempts of the ref hook, automatic or by retry().
MaxAttempts == 3
\* Accounts with a cached address (the known wallets are 0 .. MaxWallets - 1).
MaxWallets == 2
\* Calls of the balance fetcher in progress at once.
MaxRuns == 2
\* Calls of the balance fetcher's API by the application, in total.
MaxCalls == 2
\* Calls of refreshBalances() by the consumer.
MaxRefreshes == 2
\* Firings of the provider's refresh timer.
MaxTicks == 1
\* Calls of callAccountMethod by the application.
MaxAccountCalls == 2
\* Calls of getAddress by the application.
MaxAddressCalls == 2
\* Restarts of the application.
MaxReloads == 1
\* Changes of the enabled prop of the reducer hook.
MaxToggles == 2

\* ------------------------------------------------------------------ values
\* null / undefined / a missing field of CachedCredentials.
NoVal == 0
\* An opaque credential string, told apart by its generation and its field:
\* generation 0 is what secure storage holds at start-up, generation g >= 1 is
\* the g-th result of generateEntropyAndEncrypt.
Cred(g, f) == 4 * g + (IF f = "encryptionKey" THEN 1 ELSE IF f = "encryptedSeed" THEN 2 ELSE 3)

GenerationOf(v) == v \div 4

\* The identifiers callers pass; "undef" stands for an omitted identifier.
Idents == {"undef", "a"}

Fields == {"encryptionKey", "encryptedSeed", "encryptedEntropy"}

\* Error messages thrown by the flows.
ErrKeyNotFound == "Encryption key not found. Authentication may have failed or wallet does not exist."
ErrSeedNotFound == "Encrypted seed not found. Authentication may have failed or wallet does not exist."
ErrBiometric == "Biometric authentication required to create wallet"
ErrAuthentication == "AuthenticationError"
ErrGenerate == "Failed to generate entropy"
ErrStorage == "secure storage write failed"
ErrMustStartGen == "Worklet must be started before generating entropy"
ErrMustStartInit == "Worklet must be started before initializing WDK"
ErrStart == "Failed to start worklet"
ErrInitWdk == "Failed to initialize WDK"
ErrDelete == "secure storage delete failed"

VARIABLES
  cache,      \* WalletSetupService.credentialsCache: cache key -> entry
  storage,    \* secure storage: identifier -> encrypted credentials
  tasks,      \* the calls of the WalletSetupService API, by slot
  genCount,   \* credential generations handed out so far
  supplied,   \* history: last value passed to cacheCredentials per key, field
  written,    \* history: identifiers whose secure storage entry was written
  store,      \* the worklet store (zustand): the session's flags
  starts,     \* the invocations of WorkletService.startWorklet, by slot
  initState,     \* reducer hook: the useReducer state
  stateChanged,  \* reducer hook: a dispatch produced a new state object since the last render
  cancelledRef,  \* reducer hook: cancelledRef.current
  mview,         \* reducer hook: what the last committed render saw
  mcleanups,     \* reducer hook: the effects whose cleanup is registered
  mops,          \* reducer hook: its pending async functions, by slot
  mhist,         \* reducer hook, history: retry() calls, rejected wallet checks, phases, calls in flight when disabled
  hstate,        \* ref hook: its useState values
  refs,          \* ref hook: its useRef values
  hview,         \* ref hook: what the last committed render saw
  hcleanups,     \* ref hook: the registered effect cleanups
  hops,          \* ref hook: its pending async functions, by slot
  controller,    \* ref hook: the abort controller passed in
  enabled,       \* provider: the enabled prop
  hhist,         \* ref hook, history: attempts, retries, authentication failures
  walletStore,   \* the wallet store (zustand): addresses, balances, loading flags
  tokenConfigs,  \* the token configuration handed to useBalanceFetcher
  definition,    \* which definition of useBalanceFetcher the build resolves
  runs,          \* the calls of the balance fetcher's methods, by slot
  fetches,       \* the fetchBalance calls made by each run, by loading key
  apiCalls,      \* history: calls of the balance fetcher's API so far
  sync,          \* WdkAppProvider: its balance state, props, last render and timer
  acall,         \* the call of callAccountMethod made last
  sent,          \* history: the requests handed to hrpc.callMethod by callAccountMethod
  gcall,         \* the call of getAddress made last
  reloaded,      \* history: restarts of the application, and what was loading at the last
  props,         \* the configuration props WdkAppProvider is rendered with
  configError,   \* the error the provider's props validation effect threw
  ledger         \* what the gateway's balance methods return, per store key

cacheVars == <<cache, storage, tasks, genCount, supplied, written>>

workletVars == <<store, starts>>

machineVars == <<initState, stateChanged, cancelledRef, mview, mcleanups, mops, mhist>>

hookVars == <<hstate, refs, hview, hcleanups, hops, controller, enabled, hhist>>

balanceVars == <<walletStore, tokenConfigs, definition, runs, fetches, apiCalls, sync>>

serviceVars == <<acall, sent, gcall, reloaded, props, configError, ledger>>

uiVars == <<machineVars, hookVars, balanceVars, serviceVars>>

vars == <<cacheVars, workletVars, uiVars>>

\* ------------------------------------------------------- credentials cache
getCacheKey(identifier) == IF identifier = "undef" THEN "default" ELSE identifier

CacheKeys == {getCacheKey(i) : i \in Idents}

NoCreds == [encryptionKey |-> NoVal, encryptedSeed |-> NoVal, encryptedEntropy |-> NoVal]

AbsentEntry == [present |-> FALSE, encryptionKey |-> NoVal, encryptedSeed |-> NoVal,
                encryptedEntropy |-> NoVal]

\* credentialsCache.get(cacheKey): an absent entry reads as no field set.
cacheGet(c, identifier) == c[getCacheKey(identifier)]

\* A bug that stores the new partial entry without merging the existing one.
cacheCredentialsNoMerge(c, identifier, k, s, e) ==
  [c EXCEPT ![getCacheKey(identifier)] =
     [present |-> TRUE, encryptionKey |-> k, encryptedSeed |-> s, encryptedEntropy |-> e]]

\* cacheCredentials: {...existing, ...(k && {k}), ...(s && {s}), ...(e && {e})}
cacheCredentials(c, identifier, k, s, e) ==
  LET existing == c[getCacheKey(identifier)] IN
  [c EXCEPT ![getCacheKey(identifier)] =
     [present |-> TRUE,
      encryptionKey |-> IF k # NoVal THEN k ELSE existing.encryptionKey,
      encryptedSeed |-> IF s # NoVal THEN s ELSE existing.encryptedSeed,
      encryptedEntropy |-> IF e # NoVal THEN e ELSE existing.encryptedEntropy]]

\* A bug that leaves the cache as it is.
clearCredentialsCacheKeeping(c, identifier) == c

\* clearCredentialsCache: one entry for a truthy identifier, else every entry.
clearCredentialsCache(c, identifier) ==
  IF identifier # "undef"
  THEN [c EXCEPT ![getCacheKey(identifier)] = AbsentEntry]
  ELSE [k \in CacheKeys |-> AbsentEntry]

\* History of the arguments of cacheCredentials: the last truthy value
\* supplied per field since the entry was last cleared.
noteSupplied(h, identifier, k, s, e) ==
  LET old == h[getCacheKey(identifier)] IN
  [h EXCEPT ![getCacheKey(identifier)] =
     [encryptionKey |-> IF k # NoVal THEN k ELSE old.encryptionKey,
      encryptedSeed |-> IF s # NoVal THEN s ELSE old.encryptedSeed,
      encryptedEntropy |-> IF e # NoVal THEN e ELSE old.encryptedEntropy]]

noteCleared(h, identifier) ==
  IF identifier # "undef"
  THEN [h EXCEPT ![getCacheKey(identifier)] = NoCreds]
  ELSE [k \in CacheKeys |-> NoCreds]

\* ------------------------------------------------------------ worklet store
\* The store before any start (and after reset()).
FreshStore == [isWorkletStarted |-> FALSE, isLoading |-> FALSE, isInitialized |-> FALSE,
               hrpc |-> FALSE, error |-> "none",
               encryptionKey |-> NoVal, encryptedSeed |-> NoVal]

\* The store after a successful startWorklet.
StartedStore == [FreshStore EXCEPT !.isWorkletStarted = TRUE, !.hrpc = TRUE]

StartIds == 1..MaxStarts

FreeStart == [pc |-> "free", res |-> "none", rpc |-> FALSE, during |-> FALSE]

CanTakeStart(s) == /\ starts[s].pc = "free"
                   /\ \A u \in StartIds : u < s => starts[u].pc # "free"

HasFreeStart == \E s \in StartIds : starts[s].pc = "free"

\* The slot the next invocation of startWorklet takes.
NextStart == CHOOSE s \in StartIds : CanTakeStart(s)

\* A start is in flight from its setState({isLoading: true}) to its last setState.
InFlight(ss) == {s \in StartIds : ss[s].pc \in {"import", "workletStart"}}

\* A bug that drops the isLoading guard of startWorklet.
StartReturnsEarlyIfStarted(st) == st.isWorkletStarted

\* startWorklet, lines 30-38: nothing to do when loading or already started.
StartReturnsEarly(st) == st.isLoading \/ st.isWorkletStarted

\* startWorklet up to its first await, on the store: lines 41-44.
startWorkletStore(st) ==
  IF StartReturnsEarly(st) THEN st
  ELSE [st EXCEPT !.error = "none", !.isLoading = TRUE]

\* startWorklet up to its first await, as a call: returned, or suspended at
\* the dynamic import.  during records whether another start was in flight.
startWorkletTask(st, ss) ==
  IF StartReturnsEarly(st)
  THEN [pc |-> "done", res |-> "returned", rpc |-> FALSE, during |-> InFlight(ss) # {}]
  ELSE [pc |-> "import", res |-> "none", rpc |-> FALSE, during |-> InFlight(ss) # {}]

\* The catch block of startWorklet, lines 87-98.
startWorkletFailed(st) ==
  [st EXCEPT !.error = ErrStart, !.isLoading = FALSE, !.hrpc = FALSE,
             !.isWorkletStarted = FALSE]

\* Some caller (an effect run of a mounted hook, an application call)
\* invokes startWorklet.
StartWorkletCall(s) ==
  /\ CanTakeStart(s)
  /\ store' = startWorkletStore(store)
  /\ starts' = [starts EXCEPT ![s] = startWorkletTask(store, starts)]
  /\ UNCHANGED <<cacheVars, uiVars>>

\* The import resolves with a bundle and the worklet has an IPC: worklet.start
\* runs and hrpc.workletStart is issued.
StartImportResolved(s) ==
  /\ starts[s].pc = "import"
  /\ starts' = [starts EXCEPT ![s] = [@ EXCEPT !.pc = "workletStart", !.rpc = TRUE]]
  /\ UNCHANGED <<store, cacheVars, uiVars>>

\* The import rejects, or yields no bundle, or the worklet has no IPC.
StartImportFailed(s) ==
  /\ starts[s].pc = "import"
  /\ store' = startWorkletFailed(store)
  /\ starts' = [starts EXCEPT ![s] = [@ EXCEPT !.pc = "done", !.res = "failed"]]
  /\ UNCHANGED <<cacheVars, uiVars>>

\* hrpc.workletStart resolves: lines 77-86.
StartRpcResolved(s) ==
  /\ starts[s].pc = "workletStart"
  /\ store' = [store EXCEPT !.isWorkletStarted = TRUE, !.isLoading = FALSE,
                            !.hrpc = TRUE, !.error = "none"]
  /\ starts' = [starts EXCEPT ![s] = [@ EXCEPT !.pc = "done", !.res = "ok"]]
  /\ UNCHANGED <<cacheVars, uiVars>>

\* hrpc.workletStart rejects.
StartRpcRejected(s) ==
  /\ starts[s].pc = "workletStart"
  /\ store' = startWorkletFailed(store)
  /\ starts' = [starts EXCEPT ![s] = [@ EXCEPT !.pc = "done", !.res = "failed"]]
  /\ UNCHANGED <<cacheVars, uiVars>>

\* ------------------------------------------------------------------- tasks
TaskIds == 1..MaxTasks

FreeTask == [op |-> "none", id |-> "undef", pc |-> "free",
             key |-> NoVal, seed |-> NoVal, ent |-> NoVal,
             ckey |-> NoVal, hit |-> FALSE, seedNull |-> FALSE, keyNull |-> FALSE,
             dirty |-> FALSE, log |-> <<>>, res |-> "none",
             outer |-> FALSE, sub |-> 0, denied |-> FALSE,
             after |-> "none", cleared |-> FALSE,
             early |-> FALSE, read |-> NoCreds]

\* Slots are taken in order, so that equal runs are not counted twice.
CanTake(t) == /\ tasks[t].pc = "free"
              /\ \A u \in TaskIds : u < t => tasks[u].pc # "free"

\* A task slot is free and initializeWallet may still be called.
HasFreeTask ==
  /\ \E t \in TaskIds : tasks[t].pc = "free"
  /\ Cardinality({t \in TaskIds : tasks[t].outer}) < MaxInits

Done(task, result) == [task EXCEPT !.pc = "done", !.res = result]

\* createNewWallet / loadExistingWallet return or throw: called on its own the
\* call is over; called by initializeWallet, credentials go on to initializeWDK
\* and an error escapes initializeWallet.
Return(task, result) ==
  IF task.outer /\ result = "ok" THEN [task EXCEPT !.pc = "credentials"]
  ELSE Done(task, result)

Called(task, name) == [task EXCEPT !.log = Append(@, name)]

\* Every call in flight on identifier id learns that its storage entry changed.
MarkDirty(ts, id) ==
  [u \in TaskIds |-> IF ts[u].id = id /\ ts[u].pc \notin {"free", "done"}
                     THEN [ts[u] EXCEPT !.dirty = TRUE] ELSE ts[u]]

Has(log, name) == \E i \in 1..Len(log) : log[i] = name

Count(log, name) == Cardinality({i \in 1..Len(log) : log[i] = name})

Before(log, a, b) ==
  \A j \in 1..Len(log) : log[j] = b => \E i \in 1..(j - 1) : log[i] = a

\* History: a finished loadExistingWallet or getEncryptionKey that returned the
\* encryption key, its cache entry not cleared since.
ReturnedKey(task) ==
  /\ task.op \in {"load", "encryptionKey"} /\ task.pc = "done" /\ ~task.cleared
  /\ task.res = "ok" /\ task.key # NoVal

\* History: a finished loadExistingWallet that had the encryption key and
\* threw for the missing seed, the cache entry not cleared since.
FetchedKeyOnly(task) ==
  /\ task.op = "load" /\ task.pc = "done" /\ ~task.cleared
  /\ task.res = ErrSeedNotFound

\* History: what the calls finished so far on the identifier's cache entry
\* have obtained when a new call starts.
After(ts, id) ==
  IF \E u \in TaskIds : getCacheKey(ts[u].id) = getCacheKey(id) /\ ReturnedKey(ts[u])
  THEN "return"
  ELSE IF \E u \in TaskIds : getCacheKey(ts[u].id) = getCacheKey(id) /\ FetchedKeyOnly(ts[u])
  THEN "fetch"
  ELSE "none"

\* History: the finished calls whose cache entry clearCredentialsCache drops.
MarkCleared(ts, identifier) ==
  [u \in TaskIds |->
     IF ts[u].pc = "done" /\ (identifier = "undef" \/ getCacheKey(ts[u].id) = getCacheKey(identifier))
     THEN [ts[u] EXCEPT !.cleared = TRUE] ELSE ts[u]]

\* What a secure-storage read in flight answers: the entry as storage holds
\* it when the promise resolves, or as it was read earlier in the call.
Read(task) == IF task.early THEN task.read ELSE storage[task.id]

\* The answer is consumed with the resumption of the caller.
Resumed(task) == [task EXCEPT !.early = FALSE, !.read = NoCreds]

\* Secure storage serves a pending read before its promise resolves: calls of
\* the storage library are not atomic with the resumption of their callers.
StorageRead(t) ==
  /\ tasks[t].op \in {"load"} \cup Fields
  /\ tasks[t].pc \in {"getEncryptedSeed", "getAllEncrypted", "getEncryptedEntropy"}
  /\ ~tasks[t].early
  /\ tasks' = [tasks EXCEPT ![t] = [@ EXCEPT !.early = TRUE, !.read = storage[tasks[t].id]]]
  /\ UNCHANGED <<cache, storage, genCount, supplied, written>>
  /\ UNCHANGED <<workletVars, uiVars>>

\* ------------------------------------------------------ loadExistingWallet
\* A bug that never takes the cached fast path.
CacheHitNever(cached) == FALSE

\* cached?.encryptionKey && cached?.encryptedSeed
CacheHit(cached) == cached.encryptionKey # NoVal /\ cached.encryptedSeed # NoVal

\* A bug that reports a missing seed before a missing key.
LoadOutcomeSeedFirst(key, seed) ==
  IF seed = NoVal THEN ErrSeedNotFound
  ELSE IF key = NoVal THEN ErrKeyNotFound ELSE "ok"

\* The two checks after both values are resolved: key first, then seed.
LoadOutcome(key, seed) ==
  IF key = NoVal THEN ErrKeyNotFound
  ELSE IF seed = NoVal THEN ErrSeedNotFound ELSE "ok"

\* A bug that returns the key in both fields.
LoadResultSwapped(task, key, seed) == [task EXCEPT !.key = key, !.seed = key]

\* return { encryptionKey, encryptedSeed }
LoadResult(task, key, seed) == [task EXCEPT !.key = key, !.seed = seed]

\* Lines 149-164: the checks, the caching and the return.
LoadFinish(t, task, key, seed) ==
  LET outcome == LoadOutcome(key, seed) IN
  IF outcome = "ok"
  THEN /\ cache' = cacheCredentials(cache, task.id, key, seed, NoVal)
       /\ supplied' = noteSupplied(supplied, task.id, key, seed, NoVal)
       /\ tasks' = [tasks EXCEPT ![t] = Return(LoadResult(task, key, seed), "ok")]
  ELSE /\ tasks' = [tasks EXCEPT ![t] = Return(task, outcome)]
       /\ UNCHANGED <<cache, supplied>>

\* loadExistingWallet up to its first await: the cached pair, or the call of
\* secureStorage.getEncryptedSeed.
LoadTask(id, outer) ==
  LET cached == cacheGet(cache, id)
      task == [FreeTask EXCEPT !.op = "load", !.id = id, !.outer = outer,
                               !.after = After(tasks, id)] IN
  IF CacheHit(cached)
  THEN Return(LoadResult([task EXCEPT !.hit = TRUE],
                         cached.encryptionKey, cached.encryptedSeed), "ok")
  ELSE Called([task EXCEPT !.pc = "getEncryptedSeed",
                           !.ckey = cached.encryptionKey], "getEncryptedSeed")

\* A caller invokes loadExistingWallet.
LoadCall(t, id) ==
  /\ CanTake(t)
  /\ tasks' = [tasks EXCEPT ![t] = LoadTask(id, FALSE)]
  /\ UNCHANGED <<cache, storage, genCount, supplied, written>>
  /\ UNCHANGED <<workletVars, uiVars>>

\* A bug that fetches the key from secure storage whatever the cache held.
KeyNotCachedAlways(ckey) == TRUE

\* if (!encryptionKey), on the key of the cache entry read at the start
KeyNotCached(ckey) == ckey = NoVal

\* secureStorage.getEncryptedSeed resolves; the key comes from the cache
\* snapshot or, failing that, from the authenticated getAllEncrypted.
LoadSeedReturned(t) ==
  /\ tasks[t].op = "load" /\ tasks[t].pc = "getEncryptedSeed"
  /\ LET seed == Read(tasks[t]).encryptedSeed
         task == [Resumed(tasks[t]) EXCEPT !.seed = seed, !.seedNull = (seed = NoVal)] IN
     IF KeyNotCached(task.ckey)
     THEN /\ tasks' = [tasks EXCEPT ![t] =
                 Called([task EXCEPT !.pc = "getAllEncrypted"], "getAllEncrypted")]
          /\ UNCHANGED <<cache, supplied>>
     ELSE LoadFinish(t, task, task.ckey, seed)
  /\ UNCHANGED <<storage, genCount, written>>
  /\ UNCHANGED <<workletVars, uiVars>>

\* secureStorage.getAllEncrypted resolves (authentication succeeded).
LoadAllReturned(t) ==
  /\ tasks[t].op = "load" /\ tasks[t].pc = "getAllEncrypted"
  /\ LET key == Read(tasks[t]).encryptionKey
         task == [Resumed(tasks[t]) EXCEPT !.keyNull = (key = NoVal)] IN
     LoadFinish(t, task, key, task.seed)
  /\ UNCHANGED <<storage, genCount, written>>
  /\ UNCHANGED <<workletVars, uiVars>>

\* secureStorage.getAllEncrypted rejects: the authentication failed.
LoadAllRejected(t) ==
  /\ tasks[t].op = "load" /\ tasks[t].pc = "getAllEncrypted"
  /\ tasks' = [tasks EXCEPT ![t] = Return(Resumed(tasks[t]), ErrAuthentication)]
  /\ UNCHANGED <<cache, storage, genCount, supplied, written>>
  /\ UNCHANGED <<workletVars, uiVars>>

\* ---------------------- getEncryptionKey / getEncryptedSeed / ...Entropy
GetterCall(f) == IF f = "encryptionKey" THEN "getAllEncrypted"
                 ELSE IF f = "encryptedSeed" THEN "getEncryptedSeed"
                 ELSE "getEncryptedEntropy"

WithField(task, f, v) ==
  IF f = "encryptionKey" THEN [task EXCEPT !.key = v]
  ELSE IF f = "encryptedSeed" THEN [task EXCEPT !.seed = v]
  ELSE [task EXCEPT !.ent = v]

\* The getter up to its await: the cached field, or the storage call.
GetFieldCall(t, id, f) ==
  /\ CanTake(t)
  /\ LET cached == cacheGet(cache, id)
         task == [FreeTask EXCEPT !.op = f, !.id = id, !.after = After(tasks, id)] IN
     IF cached[f] # NoVal
     THEN tasks' = [tasks EXCEPT ![t] =
            Done(WithField([task EXCEPT !.hit = TRUE], f, cached[f]), "ok")]
     ELSE tasks' = [tasks EXCEPT ![t] =
            Called([task EXCEPT !.pc = GetterCall(f)], GetterCall(f))]
  /\ UNCHANGED <<cache, storage, genCount, supplied, written>>
  /\ UNCHANGED <<workletVars, uiVars>>

\* The storage call resolves: a found value is cached, null is returned as is.
GetFieldReturned(t) ==
  /\ tasks[t].op \in Fields /\ tasks[t].pc = GetterCall(tasks[t].op)
  /\ LET f == tasks[t].op
         id == tasks[t].id
         v == Read(tasks[t])[f] IN
     /\ tasks' = [tasks EXCEPT ![t] = Done(WithField(Resumed(tasks[t]), f, v), "ok")]
     /\ IF v # NoVal
        THEN /\ cache' = cacheCredentials(cache, id,
                    IF f = "encryptionKey" THEN v ELSE NoVal,
                    IF f = "encryptedSeed" THEN v ELSE NoVal,
                    IF f = "encryptedEntropy" THEN v ELSE NoVal)
             /\ supplied' = noteSupplied(supplied, id,
                    IF f = "encryptionKey" THEN v ELSE NoVal,
                    IF f = "encryptedSeed" THEN v ELSE NoVal,
                    IF f = "encryptedEntropy" THEN v ELSE NoVal)
        ELSE UNCHANGED <<cache, supplied>>
  /\ UNCHANGED <<storage, genCount, written>>
  /\ UNCHANGED <<workletVars, uiVars>>

\* getAllEncrypted rejects inside getEncryptionKey.
GetKeyRejected(t) ==
  /\ tasks[t].op = "encryptionKey" /\ tasks[t].pc = "getAllEncrypted"
  /\ tasks' = [tasks EXCEPT ![t] = Done(Resumed(tasks[t]), ErrAuthentication)]
  /\ UNCHANGED <<cache, storage, genCount, supplied, written>>
  /\ UNCHANGED <<workletVars, uiVars>>

\* --------------------------------------------------------- createNewWallet
\* createNewWallet up to its first await: secureStorage.authenticate().
CreateTask(id, outer) ==
  Called([FreeTask EXCEPT !.op = "create", !.id = id, !.pc = "authenticate",
                          !.outer = outer], "authenticate")

\* A caller invokes createNewWallet.
CreateCall(t, id) ==
  /\ CanTake(t)
  /\ tasks' = [tasks EXCEPT ![t] = CreateTask(id, FALSE)]
  /\ UNCHANGED <<cache, storage, genCount, supplied, written>>
  /\ UNCHANGED <<workletVars, uiVars>>

\* WorkletService.generateEntropyAndEncrypt up to its await: it throws unless
\* the worklet is started and has an HRPC instance.
GenerateCall(task, st) ==
  IF ~st.isWorkletStarted \/ ~st.hrpc
  THEN Return(task, ErrMustStartGen)
  ELSE Called([task EXCEPT !.pc = "generateEntropyAndEncrypt"],
              "generateEntropyAndEncrypt")

\* A bug that goes on to the generation although authenticate() said false.
NotAuthenticatedIgnored(task, st) == GenerateCall(task, st)

\* if (!authenticated) throw new Error('Biometric authentication required ...')
NotAuthenticated(task, st) == Return(task, ErrBiometric)

\* authenticate() resolves; false throws, true goes on to startWorklet when the
\* worklet is not started, and to the generation. The task remembers a false.
CreateAuthReturned(t, authenticated) ==
  /\ tasks[t].op = "create" /\ tasks[t].pc = "authenticate"
  /\ IF ~authenticated
     THEN /\ tasks' = [tasks EXCEPT ![t] =
                          NotAuthenticated([tasks[t] EXCEPT !.denied = TRUE], store)]
          /\ UNCHANGED workletVars
     ELSE IF ~store.isWorkletStarted
     THEN /\ HasFreeStart
          /\ store' = startWorkletStore(store)
          /\ starts' = [starts EXCEPT ![NextStart] = startWorkletTask(store, starts)]
          /\ tasks' = [tasks EXCEPT ![t] =
                Called([tasks[t] EXCEPT !.pc = "startWorklet", !.sub = NextStart],
                       "startWorklet")]
     ELSE /\ tasks' = [tasks EXCEPT ![t] = GenerateCall(tasks[t], store)]
          /\ UNCHANGED workletVars
  /\ UNCHANGED <<cache, storage, genCount, supplied, written>>
  /\ UNCHANGED uiVars

\* The startWorklet awaited by createNewWallet has returned or thrown.
CreateStartReturned(t) ==
  /\ tasks[t].op = "create" /\ tasks[t].pc = "startWorklet"
  /\ starts[tasks[t].sub].pc = "done"
  /\ tasks' = [tasks EXCEPT ![t] =
        IF starts[tasks[t].sub].res = "failed"
        THEN Return(tasks[t], ErrStart)
        ELSE GenerateCall(tasks[t], store)]
  /\ UNCHANGED <<cache, storage, genCount, supplied, written>>
  /\ UNCHANGED <<workletVars, uiVars>>

\* generateEntropyAndEncrypt resolves with a fresh generation; the first
\* secure storage write is issued.
CreateGenReturned(t) ==
  /\ tasks[t].op = "create" /\ tasks[t].pc = "generateEntropyAndEncrypt"
  /\ genCount < MaxGen
  /\ genCount' = genCount + 1
  /\ LET g == genCount + 1 IN
     tasks' = [tasks EXCEPT ![t] =
        Called([tasks[t] EXCEPT !.pc = "setEncryptionKey",
                                !.key = Cred(g, "encryptionKey"),
                                !.seed = Cred(g, "encryptedSeed"),
                                !.ent = Cred(g, "encryptedEntropy")], "setEncryptionKey")]
  /\ UNCHANGED <<cache, storage, supplied, written>>
  /\ UNCHANGED <<workletVars, uiVars>>

CreateGenRejected(t) ==
  /\ tasks[t].op = "create" /\ tasks[t].pc = "generateEntropyAndEncrypt"
  /\ tasks' = [tasks EXCEPT ![t] = Return(tasks[t], ErrGenerate)]
  /\ UNCHANGED <<cache, storage, genCount, supplied, written>>
  /\ UNCHANGED <<workletVars, uiVars>>

\* A bug that stores every value as the encryption key.
WriteFieldAlwaysKey(pc) == "encryptionKey"

WriteField(pc) == IF pc = "setEncryptionKey" THEN "encryptionKey"
                  ELSE IF pc = "setEncryptedSeed" THEN "encryptedSeed"
                  ELSE "encryptedEntropy"

WriteValue(task) == IF task.pc = "setEncryptionKey" THEN task.key
                    ELSE IF task.pc = "setEncryptedSeed" THEN task.seed
                    ELSE task.ent

\* One of the three secure storage writes resolves; after the last one the
\* generated credentials are cached and returned.
CreateWriteDone(t) ==
  /\ tasks[t].op = "create"
  /\ tasks[t].pc \in {"setEncryptionKey", "setEncryptedSeed", "setEncryptedEntropy"}
  /\ LET task == tasks[t]
         id == task.id
         marked == MarkDirty(tasks, id) IN
     /\ storage' = [storage EXCEPT ![id][WriteField(task.pc)] = WriteValue(task)]
     /\ written' = written \cup {id}
     /\ IF task.pc = "setEncryptionKey"
        THEN /\ tasks' = [marked EXCEPT ![t] =
                    Called([task EXCEPT !.pc = "setEncryptedSeed"], "setEncryptedSeed")]
             /\ UNCHANGED <<cache, supplied>>
        ELSE IF task.pc = "setEncryptedSeed"
        THEN /\ tasks' = [marked EXCEPT ![t] =
                    Called([task EXCEPT !.pc = "setEncryptedEntropy"], "setEncryptedEntropy")]
             /\ UNCHANGED <<cache, supplied>>
        ELSE /\ cache' = cacheCredentials(cache, id, task.key, task.seed, task.ent)
             /\ supplied' = noteSupplied(supplied, id, task.key, task.seed, task.ent)
             /\ tasks' = [marked EXCEPT ![t] = Return(task, "ok")]
  /\ UNCHANGED genCount
  /\ UNCHANGED <<workletVars, uiVars>>

\* A secure storage write rejects: the error escapes createNewWallet.
CreateWriteRejected(t) ==
  /\ tasks[t].op = "create"
  /\ tasks[t].pc \in {"setEncryptionKey", "setEncryptedSeed", "setEncryptedEntropy"}
  /\ tasks' = [tasks EXCEPT ![t] = Return(tasks[t], ErrStorage)]
  /\ UNCHANGED <<cache, storage, genCount, supplied, written>>
  /\ UNCHANGED <<workletVars, uiVars>>

\* -------------------------------------------------------- initializeWallet
\* initializeWallet up to its first await: nothing when the store says
\* initialized, else createNewWallet or loadExistingWallet.
InitWalletTask(id, createNew) ==
  IF store.isInitialized
  THEN Done([FreeTask EXCEPT !.op = IF createNew THEN "create" ELSE "load",
                            !.id = id, !.outer = TRUE], "ok")
  ELSE IF createNew THEN CreateTask(id, TRUE) ELSE LoadTask(id, TRUE)

\* A caller invokes initializeWallet.
InitWalletCall(t, id, createNew) ==
  /\ CanTake(t)
  /\ tasks' = [tasks EXCEPT ![t] = InitWalletTask(id, createNew)]
  /\ UNCHANGED <<cache, storage, genCount, supplied, written>>
  /\ UNCHANGED <<workletVars, uiVars>>

\* A bug that issues hrpc.initializeWDK without looking at the store.
WdkInitCallUnguarded(t, task) ==
  /\ tasks' = [tasks EXCEPT ![t] =
        Called([task EXCEPT !.pc = "initializeWDK"], "initializeWDK")]
  /\ store' = [store EXCEPT !.error = "none", !.isLoading = TRUE]

\* WorkletService.initializeWDK up to its await: it throws unless the worklet
\* is started, returns when already initialized with the same credentials, and
\* else sets isLoading and issues hrpc.initializeWDK.
WdkInitCall(t, task) ==
  IF ~store.isWorkletStarted \/ ~store.hrpc
  THEN /\ tasks' = [tasks EXCEPT ![t] = Done(task, ErrMustStartInit)]
       /\ UNCHANGED store
  ELSE IF /\ store.isInitialized
          /\ store.encryptionKey = task.key /\ store.encryptedSeed = task.seed
  THEN /\ tasks' = [tasks EXCEPT ![t] = Done(task, "ok")]
       /\ UNCHANGED store
  ELSE /\ tasks' = [tasks EXCEPT ![t] =
             Called([task EXCEPT !.pc = "initializeWDK"], "initializeWDK")]
       /\ store' = [store EXCEPT !.error = "none", !.isLoading = TRUE]

\* The credentials are back in initializeWallet: the initializeWDK helper starts
\* the worklet when it is not started, then initializes the WDK.
InitWalletCredentials(t) ==
  /\ tasks[t].outer /\ tasks[t].pc = "credentials"
  /\ IF ~store.isWorkletStarted
     THEN /\ HasFreeStart
          /\ store' = startWorkletStore(store)
          /\ starts' = [starts EXCEPT ![NextStart] = startWorkletTask(store, starts)]
          /\ tasks' = [tasks EXCEPT ![t] =
                Called([tasks[t] EXCEPT !.pc = "helperStartWorklet", !.sub = NextStart],
                       "startWorklet")]
     ELSE /\ WdkInitCall(t, tasks[t])
          /\ UNCHANGED starts
  /\ UNCHANGED <<cache, storage, genCount, supplied, written>>
  /\ UNCHANGED uiVars

\* The startWorklet awaited by the initializeWDK helper has returned or thrown.
InitWalletStartReturned(t) ==
  /\ tasks[t].outer /\ tasks[t].pc = "helperStartWorklet"
  /\ starts[tasks[t].sub].pc = "done"
  /\ IF starts[tasks[t].sub].res = "failed"
     THEN /\ tasks' = [tasks EXCEPT ![t] = Done(tasks[t], ErrStart)]
          /\ UNCHANGED store
     ELSE WdkInitCall(t, tasks[t])
  /\ UNCHANGED <<cache, storage, genCount, supplied, written>>
  /\ UNCHANGED <<starts, uiVars>>

\* hrpc.initializeWDK resolves: the store is initialized with the credentials.
InitWdkResolved(t) ==
  /\ tasks[t].outer /\ tasks[t].pc = "initializeWDK"
  /\ store' = [store EXCEPT !.isInitialized = TRUE, !.isLoading = FALSE,
                            !.encryptedSeed = tasks[t].seed,
                            !.encryptionKey = tasks[t].key, !.error = "none"]
  /\ tasks' = [tasks EXCEPT ![t] = Done(tasks[t], "ok")]
  /\ UNCHANGED <<cache, storage, genCount, supplied, written>>
  /\ UNCHANGED <<starts, uiVars>>

\* hrpc.initializeWDK rejects.
InitWdkRejected(t) ==
  /\ tasks[t].outer /\ tasks[t].pc = "initializeWDK"
  /\ store' = [store EXCEPT !.error = ErrInitWdk, !.isLoading = FALSE,
                            !.isInitialized = FALSE]
  /\ tasks' = [tasks EXCEPT ![t] = Done(tasks[t], ErrInitWdk)]
  /\ UNCHANGED <<cache, storage, genCount, supplied, written>>
  /\ UNCHANGED <<starts, uiVars>>

\* ---------------------------------------------------- clearCredentialsCache
ClearCache(id) ==
  /\ \E k \in CacheKeys : cache[k].present
  /\ cache' = clearCredentialsCache(cache, id)
  /\ supplied' = noteCleared(supplied, id)
  /\ tasks' = MarkCleared(tasks, id)
  /\ UNCHANGED <<storage, genCount, written>>
  /\ UNCHANGED <<workletVars, uiVars>>

\* ------------------------------------------------------------ wallet store
\* token.address of a native token (null).
Native == "null"

Networks == {"eth", "btc"}

TokenAddresses == {Native, "usdt"}

Accounts == 0 .. MaxWallets - 1

\* The token configurations considered: one network with an additional token,
\* and two networks with their native token only (in Object.keys order).
TokenConfigChoices ==
  { <<[network |-> "eth", native |-> Native, tokens |-> <<"usdt">>]>>,
    <<[network |-> "eth", native |-> Native, tokens |-> <<>>],
      [network |-> "btc", native |-> Native, tokens |-> <<>>]>> }

\* The two definitions of useBalanceFetcher: the one whose fetchAllBalances
\* awaits each wallet in a for loop, and the one that maps the wallets into
\* one Promise.all.
Definitions == {"sequential", "parallel"}

\* tokenHelpers.getSupportedNetworks: Object.keys(tokenConfigs).
getSupportedNetworks(cfg) == [i \in 1..Len(cfg) |-> cfg[i].network]

\* A bug that leaves the native token out of a network's tokens.
getTokensForNetworkWithoutNative(cfg, network) ==
  IF \E i \in 1..Len(cfg) : cfg[i].network = network
  THEN cfg[CHOOSE i \in 1..Len(cfg) : cfg[i].network = network].tokens
  ELSE <<>>

\* tokenHelpers.getTokensForNetwork: [native, ...tokens], [] for an unknown network.
getTokensForNetwork(cfg, network) ==
  IF \E i \in 1..Len(cfg) : cfg[i].network = network
  THEN LET networkTokens == cfg[CHOOSE i \in 1..Len(cfg) : cfg[i].network = network]
       IN <<networkTokens.native>> \o networkTokens.tokens
  ELSE <<>>

\* tokenAddress || 'native'
tokenKey(tokenAddress) == IF tokenAddress \in {Native, ""} THEN "native" ELSE tokenAddress

\* `${network}-${accountIndex}-${tokenKey}`, kept as a triple.
loadingKey(network, accountIndex, tokenAddress) ==
  <<network, accountIndex, tokenKey(tokenAddress)>>

StoreKeys == {loadingKey(n, a, t) : n \in Networks, a \in Accounts, t \in TokenAddresses}

\* ---- balance values
\* Decimal digits, most significant first.
D0 == <<0>>

D1000 == <<1, 0, 0, 0>>

\* 9007199254740993 = 2^53 + 1
D2p53 == <<9, 0, 0, 7, 1, 9, 9, 2, 5, 4, 7, 4, 0, 9, 9, 3>>

\* 123456789012345678901234567890
D30 == <<1, 2, 3, 4, 5, 6, 7, 8, 9, 0, 1, 2, 3, 4, 5, 6, 7, 8, 9, 0,
         1, 2, 3, 4, 5, 6, 7, 8, 9, 0>>

\* A JavaScript string of digits, with an exponent suffix "e+n" when exponent > 0.
Str(digits) == [type |-> "string", digits |-> digits, exponent |-> 0]

BigIntValue(digits) == [type |-> "bigint", digits |-> digits, exponent |-> 0]

\* A JavaScript number is a double: integers of up to 15 decimal digits are
\* all held exactly; of a longer integer only the leading digits are certain
\* to survive, and here the others are lost.
NumberValue(digits) ==
  [type |-> "number",
   digits |-> [i \in 1..Len(digits) |-> IF i <= 15 THEN digits[i] ELSE 0],
   exponent |-> 0]

\* No balance: null in a fetch result, an absent entry in the store.
NoBalance == [type |-> "none", digits |-> <<>>, exponent |-> 0]

\* String(number): plain digits below 1e21 (21 digits), exponent notation from
\* there on.
NumberToString(value) ==
  IF Len(value.digits) <= 21 THEN Str(value.digits)
  ELSE [type |-> "string", digits |-> SubSeq(value.digits, 1, 15),
        exponent |-> Len(value.digits) - 1]

\* What the account methods of the worklet return as a balance: a bigint of any
\* size, or a number within the exact range of a double.
GatewayValues ==
  {BigIntValue(d) : d \in {D0, D1000, D2p53, D30}} \cup {NumberValue(d) : d \in {D0, D1000}}

\* response.result of hrpc.callMethod: the JSON text of the method's result.
\* JSON has no bigint, so a bigint travels as the JSON string of its digits;
\* a number travels as a JSON number.
hrpcResult(value) ==
  [json |-> IF value.type = "bigint" THEN "string" ELSE "number", digits |-> value.digits]

JSONparseAsNumber(text) == NumberValue(text.digits)

\* JSON.parse(response.result)
JSONparse(text) ==
  IF text.json = "string" THEN Str(text.digits) ELSE NumberValue(text.digits)

\* convertBigIntToString of callAccountMethod
convertBigIntToString(value) ==
  IF value.type = "bigint" THEN Str(value.digits) ELSE value

\* What callAccountMethod returns for a response of the gateway.
callAccountMethodResult(text) == convertBigIntToString(JSONparse(text))

\* convertBalanceToString: a bigint, a number or a string becomes its decimal string.
convertBalanceToString(balanceResult) ==
  IF balanceResult.type = "number" THEN NumberToString(balanceResult)
  ELSE Str(balanceResult.digits)

\* What the account method call hands back in the other specifications.
RemoteResults == {callAccountMethodResult(hrpcResult(BigIntValue(D1000)))}

\* The wallet store after reset(): no addresses, no balances, nothing loading.
EmptyWalletStore ==
  [addresses |-> {}, walletLoading |-> {}, balances |-> [k \in StoreKeys |-> NoBalance],
   balanceLoading |-> {}, lastBalanceUpdate |-> {}]

\* WorkletService.setBalanceLoading
setBalanceLoading(ws, network, accountIndex, tokenAddress, loading) ==
  [ws EXCEPT !.balanceLoading =
     IF loading THEN @ \cup {loadingKey(network, accountIndex, tokenAddress)}
     ELSE @ \ {loadingKey(network, accountIndex, tokenAddress)}]

\* WorkletService.updateBalance
updateBalance(ws, accountIndex, network, tokenAddress, balance) ==
  [ws EXCEPT !.balances[loadingKey(network, accountIndex, tokenAddress)] = balance]

\* WorkletService.getBalance: the stored string, or null when there is none
\* or it is the empty string.
getBalance(ws, accountIndex, network, tokenAddress) ==
  LET balance == ws.balances[loadingKey(network, accountIndex, tokenAddress)]
  IN IF balance = NoBalance \/ balance = Str(<<>>) THEN NoBalance ELSE balance

\* WorkletService.updateLastBalanceUpdate (the timestamp itself is left out)
updateLastBalanceUpdate(ws, network, accountIndex) ==
  [ws EXCEPT !.lastBalanceUpdate = @ \cup {<<network, accountIndex>>}]

RECURSIVE Ascending(_)
\* Array.from(accountIndices).sort((a, b) => a - b)
Ascending(S) ==
  IF S = {} THEN <<>>
  ELSE LET least == CHOOSE x \in S : \A y \in S : x <= y
       IN <<least>> \o Ascending(S \ {least})

\* getAllWalletsFromWalletStore: the account indices that have an address.
getAllWallets(ws) == Ascending({p[2] : p \in ws.addresses})

\* --------------------------------------------------------- balance fetcher
ErrWalletNotInitialized == "Wallet not initialized"
ErrWdkNotInitialized == "WDK not initialized"
ErrRemote == "account method call failed"

\* BalanceFetchResult
FetchSucceeded(key, balance) ==
  [success |-> TRUE, network |-> key[1], accountIndex |-> key[2], tokenAddress |-> key[3],
   balance |-> balance, error |-> "none"]

FetchFailed(key, error) ==
  [success |-> FALSE, network |-> key[1], accountIndex |-> key[2], tokenAddress |-> key[3],
   balance |-> NoBalance, error |-> error]

\* The arguments of a fetchBalance call: <<network, accountIndex, tokenAddress>>.
FetchKeys == Networks \X Accounts \X TokenAddresses

RunIds == 1 .. MaxRuns

\* A fetchBalance call that was not made.
FreeFetch == [pc |-> "none", res |-> FetchFailed(<<"", 0, "">>, "none")]

NoFetches == [k \in FetchKeys |-> FreeFetch]

\* A free slot for a call of the balance fetcher.
FreeRun == [kind |-> "none", pc |-> "free", owner |-> "none", args |-> <<"", 0, "">>,
            todo |-> <<>>,
            spawned |-> <<>>, order |-> <<>>, results |-> <<>>]

\* An async function of the provider's initialization flow that is not pending.
FreeGateOp == [kind |-> "none", sub |-> 0, cancelled |-> FALSE]

\* The initialization state of WdkAppProvider before its first render: the
\* useState values (biometricAuthenticated starts as !requireBiometric), the
\* two attempt refs, the last render, the pending wallet check whose cleanup
\* is registered and the pending async functions.
GateUnmounted(requireBiometric) ==
  [requireBiometric |-> requireBiometric, mounted |-> FALSE,
   hasWalletChecked |-> FALSE, walletKnown |-> FALSE, walletExists |-> FALSE,
   biometricAuthenticated |-> ~requireBiometric,
   initializationError |-> "none", walletInitError |-> "none",
   attemptedWorklet |-> FALSE, attemptedWallet |-> FALSE,
   view |-> [hasWalletChecked |-> FALSE, walletKnown |-> FALSE, walletExists |-> FALSE,
             biometricAuthenticated |-> ~requireBiometric,
             initializationError |-> "none", walletInitError |-> "none",
             isWorkletStarted |-> FALSE, isInitialized |-> FALSE, isLoading |-> FALSE,
             isWalletInitializing |-> FALSE],
   checkOp |-> 0, ops |-> [o \in 1..MaxOps |-> FreeGateOp], retries |-> 0]

\* WdkAppProvider before its first render, with its autoFetchBalances and
\* balanceRefreshInterval props.
ProviderUnmounted(autoFetchBalances, balanceRefreshInterval) ==
  [mounted |-> FALSE, isFetchingBalances |-> FALSE,
   hasCompletedInitialBalanceFetch |-> FALSE,
   autoFetchBalances |-> autoFetchBalances,
   balanceRefreshInterval |-> balanceRefreshInterval,
   view |-> [walletInitialized |-> FALSE, isReady |-> FALSE, isFetchingBalances |-> FALSE],
   interval |-> FALSE, triggers |-> {}, refreshes |-> 0, skipped |-> 0, ticks |-> 0,
   gate |-> GateUnmounted(FALSE)]

\* No call of the balance fetcher was made yet; every account has an address.
BalanceIdleWith(cfg, def) ==
  /\ walletStore = [EmptyWalletStore EXCEPT !.addresses = {"eth"} \X Accounts]
  /\ tokenConfigs = cfg
  /\ definition = def
  /\ runs = [r \in RunIds |-> FreeRun]
  /\ fetches = [r \in RunIds |-> NoFetches]
  /\ apiCalls = 0
  /\ sync = ProviderUnmounted(TRUE, 30000)

BalanceIdle ==
  BalanceIdleWith(<<[network |-> "eth", native |-> Native, tokens |-> <<"usdt">>]>>,
                  "sequential")

\* --------------------------------------------------------- account service
\* No call of callAccountMethod was made.
NoAccountCall ==
  [pc |-> "free", service |-> "", network |-> "", accountIndex |-> 0, methodName |-> "",
   error |-> "none", n |-> 0]

\* No call of getAddress was made.
NoAddressCall ==
  [pc |-> "free", service |-> "", network |-> "", accountIndex |-> 0, error |-> "none", n |-> 0]

\* ---- configuration props and their validation (utils/mmkvKeyManager.ts)
\* A validation error: its message and the network it names ("" for none).
ConfigError(message, networkName) == <<message, networkName>>

NoConfigError == ConfigError("none", "")

NetworkConfig(networkName, chainId, blockchain) ==
  [networkName |-> networkName, chainId |-> chainId, blockchain |-> blockchain]

Token(symbol, name, decimals, address) ==
  [symbol |-> symbol, name |-> name, decimals |-> decimals, address |-> address]

NetworkTokens(networkName, native, tokens) ==
  [networkName |-> networkName, native |-> native, tokens |-> tokens]

\* balanceRefreshInterval is optional: undefined, or a number of milliseconds.
Undefined == [given |-> FALSE, ms |-> 0]

Interval(ms) == [given |-> TRUE, ms |-> ms]

DEFAULT_BALANCE_REFRESH_INTERVAL_MS == 30000

\* The first error of a sequence of check results, in order.
FirstError(errors) ==
  IF \A i \in DOMAIN errors : errors[i] = NoConfigError THEN NoConfigError
  ELSE errors[CHOOSE i \in DOMAIN errors :
                /\ errors[i] # NoConfigError
                /\ \A j \in 1..(i - 1) : errors[j] = NoConfigError]

validateNetworkConfig(config) ==
  IF config.chainId <= 0
    THEN ConfigError("Invalid chainId: must be a positive number", config.networkName)
  ELSE IF config.blockchain = ""
    THEN ConfigError("Invalid blockchain: must be a non-empty string", config.networkName)
  ELSE NoConfigError

validateNetworkConfigs(networkConfigs) ==
  IF Len(networkConfigs) = 0
    THEN ConfigError("networkConfigs must contain at least one network", "")
  ELSE FirstError([i \in 1..Len(networkConfigs) |-> validateNetworkConfig(networkConfigs[i])])

validateNativeToken(native, networkName) ==
  IF native.symbol = ""
    THEN ConfigError("Invalid native token symbol: must be a non-empty string", networkName)
  ELSE IF native.name = ""
    THEN ConfigError("Invalid native token name: must be a non-empty string", networkName)
  ELSE IF native.decimals < 0 \/ native.decimals > 18
    THEN ConfigError("Invalid native token decimals: must be a number between 0 and 18", networkName)
  ELSE NoConfigError

validateToken(token, networkName) ==
  IF token.symbol = ""
    THEN ConfigError("Invalid token symbol: must be a non-empty string", networkName)
  ELSE IF token.name = ""
    THEN ConfigError("Invalid token name: must be a non-empty string", networkName)
  ELSE IF token.decimals < 0 \/ token.decimals > 18
    THEN ConfigError("Invalid token decimals: must be a number between 0 and 18", networkName)
  ELSE IF token.address # "null" /\ token.address = ""
    THEN ConfigError("Invalid token address: must be null or a non-empty string", networkName)
  ELSE NoConfigError

validateNetworkTokens(networkTokens) ==
  FirstError(<<validateNativeToken(networkTokens.native, networkTokens.networkName)>>
             \o [i \in 1..Len(networkTokens.tokens) |->
                   validateToken(networkTokens.tokens[i], networkTokens.networkName)])

validateTokenConfigs(configs) ==
  IF Len(configs) = 0
    THEN ConfigError("tokenConfigs must contain at least one network", "")
  ELSE FirstError([i \in 1..Len(configs) |-> validateNetworkTokens(configs[i])])

validateBalanceRefreshIntervalAcceptingAll(interval) == NoConfigError

validateBalanceRefreshInterval(interval) ==
  IF interval.given /\ interval.ms < 0
    THEN ConfigError("balanceRefreshInterval must be a non-negative number", "")
  ELSE NoConfigError

\* The destructuring default of the provider's props.
withDefaultInterval(interval) ==
  IF interval.given THEN interval ELSE Interval(DEFAULT_BALANCE_REFRESH_INTERVAL_MS)

\* The body of the provider's validation effect: the three validators in order;
\* the first one that throws ends it.
validateProps(p) ==
  FirstError(<<validateNetworkConfigs(p.networkConfigs),
               validateTokenConfigs(p.tokenConfigs),
               validateBalanceRefreshInterval(withDefaultInterval(p.balanceRefreshInterval))>>)

ChainIds == {-1, 0, 1}

DecimalsChoices == {-1, 0, 18, 19}

NetworkConfigsChoices ==
  {<<>>, <<NetworkConfig("eth", 1, "")>>,
   <<NetworkConfig("eth", 1, "ethereum"), NetworkConfig("polygon", 0, "polygon")>>}
    \cup {<<NetworkConfig("eth", c, "ethereum")>> : c \in ChainIds}

TokenConfigsChoices ==
  {<<>>, <<NetworkTokens("eth", Token("", "Ether", 18, "null"), <<>>)>>,
   <<NetworkTokens("eth", Token("ETH", "Ether", 18, "null"),
                   <<Token("USDT", "Tether", 6, "")>>)>>}
    \cup {<<NetworkTokens("eth", Token("ETH", "Ether", d, "null"),
                          <<Token("USDT", "Tether", e, "0xusdt")>>)>> :
            d \in DecimalsChoices, e \in DecimalsChoices}

IntervalChoices == {Undefined, Interval(-1), Interval(0), Interval(DEFAULT_BALANCE_REFRESH_INTERVAL_MS)}

PropsChoices ==
  [networkConfigs : NetworkConfigsChoices, tokenConfigs : TokenConfigsChoices,
   balanceRefreshInterval : IntervalChoices]

ValidProps ==
  [networkConfigs |-> <<NetworkConfig("eth", 1, "ethereum")>>,
   tokenConfigs |-> <<NetworkTokens("eth", Token("ETH", "Ether", 18, "null"),
                                    <<Token("USDT", "Tether", 18, "0xusdt")>>)>>,
   balanceRefreshInterval |-> Undefined]

ServiceIdleWith(p) ==
  /\ acall = NoAccountCall
  /\ sent = {}
  /\ gcall = NoAddressCall
  /\ reloaded = [n |-> 0, balanceLoading |-> {}, walletLoading |-> {}]
  /\ props = p
  /\ configError = NoConfigError
  /\ ledger = [k \in StoreKeys |-> BigIntValue(D1000)]

ServiceIdle == ServiceIdleWith(ValidProps)

\* ------------------------------------------------------------ CacheSpec
\* The reducer hook before its first render.
MachineUnmounted ==
  /\ initState = [type |-> "idle", walletExists |-> FALSE, isAuthError |-> FALSE]
  /\ stateChanged = FALSE
  /\ cancelledRef = FALSE
  /\ mview = [mounted |-> FALSE, type |-> "idle", walletExists |-> FALSE,
              isWorkletStarted |-> FALSE, isInitialized |-> FALSE, isLoading |-> FALSE,
              enabled |-> TRUE]
  /\ mcleanups = [start |-> FALSE, check |-> FALSE, init |-> FALSE]
  /\ mops = [o \in 1..MaxOps |-> [kind |-> "none", sub |-> 0]]
  /\ mhist = [retries |-> 0, checksRejected |-> 0, phase |-> 0, checked |-> FALSE,
              toggles |-> 0, stale |-> {}]

\* The ref hook before its first render, without an abort controller, in an
\* enabled provider.
HookRefs == [attemptedWorklet |-> FALSE, attemptedWallet |-> FALSE, opId |-> 0,
             authError |-> FALSE]

HookState == [hasWalletChecked |-> FALSE, walletKnown |-> FALSE, walletExists |-> FALSE,
              initializationError |-> "none", walletInitError |-> "none"]

FreeHookOp == [kind |-> "none", sub |-> 0, opId |-> 0, cancelled |-> FALSE]

HookUnmountedWith(ctl, en) ==
  /\ hstate = HookState
  /\ refs = HookRefs
  /\ hview = [mounted |-> FALSE, hasWalletChecked |-> FALSE, walletKnown |-> FALSE,
              walletExists |-> FALSE, initializationError |-> "none",
              walletInitError |-> "none", isWorkletStarted |-> FALSE,
              isInitialized |-> FALSE, isLoading |-> FALSE,
              isWalletInitializing |-> FALSE]
  /\ hcleanups = [check |-> 0, init |-> 0]
  /\ hops = [o \in 1..MaxOps |-> FreeHookOp]
  /\ controller = ctl
  /\ enabled = en
  /\ hhist = [retries |-> 0, autoAttempts |-> 0, retryAttempts |-> 0,
              authFailed |-> FALSE, retriedSuppressed |-> 0, withheld |-> FALSE]

HookUnmounted == HookUnmountedWith("none", TRUE)

\* What secure storage may hold for an identifier at start-up: no wallet, a
\* complete wallet, or a wallet whose key or whose seed is missing.
StoredWallets ==
  {[encryptionKey |-> k, encryptedSeed |-> s,
    encryptedEntropy |-> IF k = NoVal /\ s = NoVal THEN NoVal
                         ELSE Cred(0, "encryptedEntropy")] :
     k \in {NoVal, Cred(0, "encryptionKey")}, s \in {NoVal, Cred(0, "encryptedSeed")}}

\* Secure storage starts with any of these per identifier; the cache starts
\* empty (a new process).
CacheInit ==
  /\ cache = [k \in CacheKeys |-> AbsentEntry]
  /\ storage \in [Idents -> StoredWallets]
  /\ tasks = [t \in TaskIds |-> FreeTask]
  /\ genCount = 0
  /\ supplied = [k \in CacheKeys |-> NoCreds]
  /\ written = {}
  /\ store = StartedStore
  /\ starts = [s \in StartIds |-> FreeStart]
  /\ MachineUnmounted
  /\ BalanceIdle
  /\ ServiceIdle
  /\ HookUnmounted

CacheNext ==
  \/ \E t \in TaskIds, id \in Idents : LoadCall(t, id)
  \/ \E t \in TaskIds : LoadSeedReturned(t)
  \/ \E t \in TaskIds : LoadAllReturned(t)
  \/ \E t \in TaskIds : LoadAllRejected(t)
  \/ \E t \in TaskIds, id \in Idents, f \in Fields : GetFieldCall(t, id, f)
  \/ \E t \in TaskIds : GetFieldReturned(t)
  \/ \E t \in TaskIds : GetKeyRejected(t)
  \/ \E t \in TaskIds, id \in Idents : CreateCall(t, id)
  \/ \E t \in TaskIds, a \in BOOLEAN : CreateAuthReturned(t, a)
  \/ \E t \in TaskIds : CreateGenReturned(t)
  \/ \E t \in TaskIds : CreateGenRejected(t)
  \/ \E t \in TaskIds : CreateWriteDone(t)
  \/ \E t \in TaskIds : CreateWriteRejected(t)
  \/ \E id \in Idents : ClearCache(id)

CacheSpec == CacheInit /\ [][CacheNext]_vars

\* --------------------------------------------------------------- StartSpec
\* A wallet as secure storage holds it from an earlier run of the app.
StoredWallet == [f \in Fields |-> Cred(0, f)]

\* A cold process: nothing started, nothing cached; identifier "a" has a wallet
\* in secure storage, the default identifier has none.
StartInit ==
  /\ cache = [k \in CacheKeys |-> AbsentEntry]
  /\ storage = [i \in Idents |-> IF i = "a" THEN StoredWallet ELSE NoCreds]
  /\ tasks = [t \in TaskIds |-> FreeTask]
  /\ genCount = 0
  /\ supplied = [k \in CacheKeys |-> NoCreds]
  /\ written = {}
  /\ store = FreshStore
  /\ starts = [s \in StartIds |-> FreeStart]
  /\ MachineUnmounted
  /\ BalanceIdle
  /\ ServiceIdle
  /\ HookUnmounted

\* Every caller of startWorklet: direct invocations, createNewWallet and the
\* initializeWDK helper (both through initializeWallet).
StartNext ==
  \/ \E s \in StartIds : StartWorkletCall(s)
  \/ \E s \in StartIds : StartImportResolved(s)
  \/ \E s \in StartIds : StartImportFailed(s)
  \/ \E s \in StartIds : StartRpcResolved(s)
  \/ \E s \in StartIds : StartRpcRejected(s)
  \/ \E t \in TaskIds, id \in Idents :
       HasFreeTask /\ InitWalletCall(t, id, id = "undef")
  \/ \E t \in TaskIds : CreateAuthReturned(t, TRUE)
  \/ \E t \in TaskIds : CreateStartReturned(t)
  \/ \E t \in TaskIds : CreateGenReturned(t)
  \/ \E t \in TaskIds : CreateWriteDone(t)
  \/ \E t \in TaskIds : LoadSeedReturned(t)
  \/ \E t \in TaskIds : LoadAllReturned(t)
  \/ \E t \in TaskIds : InitWalletCredentials(t)
  \/ \E t \in TaskIds : InitWalletStartReturned(t)
  \/ \E t \in TaskIds : InitWdkResolved(t)
  \/ \E t \in TaskIds : InitWdkRejected(t)

StartSpec == StartInit /\ [][StartNext]_vars

\* ------------------------------------------- reducer hook: useWdkInitialization
OpIds == 1..MaxOps

FreeOp == [kind |-> "none", sub |-> 0]

HasFreeOp == \E o \in OpIds : mops[o].kind = "none"

NextOp == CHOOSE o \in OpIds : mops[o].kind = "none" /\ \A u \in OpIds : u < o => mops[u].kind # "none"

NextTask == CHOOSE t \in TaskIds : CanTake(t)

\* The identifier prop of the mounted hook.
HookIdentifier == "a"

\* InitState; the fields a state type does not carry hold a fixed value.
St(type) == [type |-> type, walletExists |-> FALSE, isAuthError |-> FALSE]

\* InitAction, likewise.
Act(type) == [type |-> type, exists |-> FALSE, error |-> "none"]

\* The error messages and names the classification matches: the name
\* AuthenticationError, or a message containing "authentication" or
\* "biometric" in any case.
AuthenticationErrors == {ErrAuthentication, ErrBiometric, ErrKeyNotFound, ErrSeedNotFound}

isAuthenticationError(error) == error \in AuthenticationErrors

\* A bug that surfaces a failed wallet check as an error.
onWalletCheckErrorSurfaced(state) == St("error")

\* case 'WALLET_CHECK_ERROR'
onWalletCheckError(state) == St("initializing_wallet")

initReducer(state, action) ==
  CASE action.type = "START_WORKLET" ->
         IF state.type = "idle" THEN St("starting_worklet") ELSE state
    [] action.type = "WORKLET_STARTED" -> St("checking_wallet")
    [] action.type = "WORKLET_ERROR" -> St("error")
    [] action.type = "CHECK_WALLET" ->
         IF state.type \in {"starting_worklet", "checking_wallet"}
         THEN St("checking_wallet") ELSE state
    [] action.type = "WALLET_CHECKED" ->
         [St("initializing_wallet") EXCEPT !.walletExists = action.exists]
    [] action.type = "WALLET_CHECK_ERROR" -> onWalletCheckError(state)
    [] action.type = "INITIALIZE_WALLET" ->
         [St("initializing_wallet") EXCEPT !.walletExists = action.exists]
    [] action.type = "WALLET_INITIALIZED" -> St("ready")
    [] action.type = "WALLET_INIT_ERROR" ->
         [St("error") EXCEPT !.isAuthError = isAuthenticationError(action.error)]
    [] action.type = "RESET" -> St("idle")
    [] action.type = "RETRY" -> IF state.type = "error" THEN St("idle") ELSE state
    [] OTHER -> state

\* Whether the reducer returns a new object (React re-renders and compares the
\* state dependency by identity) or the state it was given.
ReturnsNewObject(state, action) ==
  CASE action.type = "START_WORKLET" -> state.type = "idle"
    [] action.type = "CHECK_WALLET" -> state.type \in {"starting_worklet", "checking_wallet"}
    [] action.type = "RETRY" -> state.type = "error"
    [] OTHER -> TRUE

\* getStateContext(state).walletExists; known is FALSE for null.
getStateContext(type, walletExists) ==
  CASE type = "initializing_wallet" -> [known |-> TRUE, walletExists |-> walletExists]
    [] type = "ready" -> [known |-> TRUE, walletExists |-> TRUE]
    [] OTHER -> [known |-> FALSE, walletExists |-> FALSE]

\* What a render reads: the reducer state and the worklet store selectors.
MSnapshot ==
  [mounted |-> TRUE, type |-> initState.type, walletExists |-> initState.walletExists,
   isWorkletStarted |-> store.isWorkletStarted, isInitialized |-> store.isInitialized,
   isLoading |-> store.isLoading, enabled |-> enabled]

\* History: how far the machine has come since it last was idle. 0: nowhere;
\* 1: through starting_worklet; 2: then through checking_wallet; 3: then
\* through initializing_wallet.
Advance(phase, type) ==
  CASE type = "idle" -> 0
    [] type = "starting_worklet" /\ phase = 0 -> 1
    [] type = "checking_wallet" /\ phase = 1 -> 2
    [] type = "initializing_wallet" /\ phase = 2 -> 3
    [] OTHER -> phase

\* The guards of the four effects, on the values of the render they close over.
StartEffectRuns(snap) ==
  snap.type = "idle" /\ ~snap.isInitialized /\ ~snap.isLoading /\ snap.enabled

CheckEffectRuns(snap) ==
  snap.type = "checking_wallet" /\ snap.isWorkletStarted /\ snap.enabled

InitEffectRuns(snap) ==
  snap.type = "initializing_wallet" /\ ~snap.isInitialized /\ snap.enabled

\* The guard of the first effect: enabled has changed from false to true.
EnabledResetRuns(snap, prev) == prev.mounted /\ snap.enabled /\ ~prev.enabled

ExternalInitEffectRuns(snap) == snap.isInitialized /\ snap.type \notin {"ready", "error"}

\* A render is committed and its effects run: first the cleanups of the
\* effects whose dependencies changed, then their bodies, each up to its
\* first await.
MRender ==
  /\ stateChanged \/ mview # MSnapshot
  /\ LET snap == MSnapshot
         first == ~mview.mounted
         enabledDep == snap.enabled # mview.enabled
         startDeps == \/ first \/ snap.type # mview.type
                      \/ snap.isInitialized # mview.isInitialized
                      \/ snap.isLoading # mview.isLoading
                      \/ enabledDep
         checkDeps == \/ first \/ snap.type # mview.type
                      \/ snap.isWorkletStarted # mview.isWorkletStarted
                      \/ enabledDep
         initDeps == \/ first \/ stateChanged \/ snap.isInitialized # mview.isInitialized
                     \/ enabledDep
         resets == EnabledResetRuns(snap, mview)
         afterReset == IF resets THEN initReducer(initState, Act("RESET")) ELSE initState
         externalDeps == \/ first \/ snap.type # mview.type
                         \/ snap.isInitialized # mview.isInitialized
         cleaned == \/ startDeps /\ mcleanups.start
                    \/ checkDeps /\ mcleanups.check
                    \/ initDeps /\ mcleanups.init
         runStart == startDeps /\ StartEffectRuns(snap)
         runCheck == checkDeps /\ CheckEffectRuns(snap)
         runInit == initDeps /\ InitEffectRuns(snap)
         runExternal == externalDeps /\ ExternalInitEffectRuns(snap)
     IN
     /\ mview' = snap
     /\ mcleanups' = [start |-> IF startDeps THEN runStart ELSE mcleanups.start,
                      check |-> IF checkDeps THEN runCheck ELSE mcleanups.check,
                      init |-> IF initDeps THEN runInit ELSE mcleanups.init]
     /\ cancelledRef' = IF resets \/ runStart \/ runCheck \/ runInit THEN FALSE
                        ELSE cancelledRef \/ cleaned
     /\ IF runStart
        THEN /\ initState' = initReducer(afterReset, Act("START_WORKLET"))
             /\ stateChanged' = TRUE
        ELSE IF runExternal
        THEN /\ initState' = initReducer(afterReset, Act("WALLET_INITIALIZED"))
             /\ stateChanged' = TRUE
        ELSE /\ initState' = afterReset
             /\ stateChanged' = resets
     /\ mhist' = [mhist EXCEPT
                    !.phase = Advance(Advance(@, afterReset.type), initState'.type),
                    !.stale = IF snap.enabled THEN @
                              ELSE @ \cup {o \in OpIds : mops[o].kind # "none"}]
     /\ IF runStart
        THEN /\ HasFreeStart /\ HasFreeOp
             /\ store' = startWorkletStore(store)
             /\ starts' = [starts EXCEPT ![NextStart] = startWorkletTask(store, starts)]
             /\ mops' = [mops EXCEPT ![NextOp] = [kind |-> "start", sub |-> NextStart]]
             /\ UNCHANGED tasks
        ELSE IF runCheck
        THEN /\ HasFreeOp
             /\ mops' = [mops EXCEPT ![NextOp] = [kind |-> "check", sub |-> 0]]
             /\ UNCHANGED <<store, starts, tasks>>
        ELSE IF runInit
        THEN /\ HasFreeOp /\ HasFreeTask
             /\ tasks' = [tasks EXCEPT ![NextTask] =
                            InitWalletTask(HookIdentifier, ~snap.walletExists)]
             /\ mops' = [mops EXCEPT ![NextOp] = [kind |-> "init", sub |-> NextTask]]
             /\ UNCHANGED <<store, starts>>
        ELSE UNCHANGED <<store, starts, tasks, mops>>
  /\ UNCHANGED <<cache, storage, genCount, supplied, written, hookVars, balanceVars, serviceVars>>

\* A dispatch from an async function, unless the ref says cancelled.
MDispatchUnlessCancelled(action) ==
  IF cancelledRef
  THEN UNCHANGED <<initState, stateChanged>>
  ELSE /\ initState' = initReducer(initState, action)
       /\ stateChanged' = (stateChanged \/ ReturnsNewObject(initState, action))

\* initializeWorklet resumes: the startWorklet it awaits has returned or thrown.
MStartSettled(o) ==
  /\ mops[o].kind = "start" /\ starts[mops[o].sub].pc = "done"
  /\ MDispatchUnlessCancelled(
        IF starts[mops[o].sub].res = "failed"
        THEN [Act("WORKLET_ERROR") EXCEPT !.error = ErrStart]
        ELSE Act("WORKLET_STARTED"))
  /\ mops' = [mops EXCEPT ![o] = FreeOp]
  /\ mhist' = [mhist EXCEPT !.phase = Advance(@, initState'.type), !.stale = @ \ {o}]
  /\ UNCHANGED <<cacheVars, workletVars, cancelledRef, mview, mcleanups, hookVars, balanceVars, serviceVars>>

\* What hasWallet(identifier) resolves with: whether secure storage holds a
\* wallet; either answer while only part of one is written.
HasWalletResults(stg, id) ==
  IF stg[id] = NoCreds THEN {FALSE}
  ELSE IF \A f \in Fields : stg[id][f] # NoVal THEN {TRUE}
  ELSE BOOLEAN

\* checkWallet resumes: hasWallet resolved.
MCheckResolved(o, exists) ==
  /\ mops[o].kind = "check"
  /\ exists \in HasWalletResults(storage, HookIdentifier)
  /\ MDispatchUnlessCancelled([Act("WALLET_CHECKED") EXCEPT !.exists = exists])
  /\ mops' = [mops EXCEPT ![o] = FreeOp]
  /\ mhist' = [mhist EXCEPT !.phase = Advance(@, initState'.type), !.checked = TRUE,
                             !.stale = @ \ {o}]
  /\ UNCHANGED <<cacheVars, workletVars, cancelledRef, mview, mcleanups, hookVars, balanceVars, serviceVars>>

\* checkWallet resumes in its catch: hasWallet rejected.
MCheckRejected(o) ==
  /\ mops[o].kind = "check"
  /\ MDispatchUnlessCancelled(Act("WALLET_CHECK_ERROR"))
  /\ mops' = [mops EXCEPT ![o] = FreeOp]
  /\ mhist' = [mhist EXCEPT !.checksRejected = @ + 1, !.checked = TRUE,
                             !.phase = Advance(@, initState'.type), !.stale = @ \ {o}]
  /\ UNCHANGED <<cacheVars, workletVars, cancelledRef, mview, mcleanups, hookVars, balanceVars, serviceVars>>

\* performInitialization resumes: initializeWallet has returned or thrown.
MInitSettled(o) ==
  /\ mops[o].kind = "init" /\ tasks[mops[o].sub].pc = "done"
  /\ MDispatchUnlessCancelled(
        IF tasks[mops[o].sub].res = "ok"
        THEN Act("WALLET_INITIALIZED")
        ELSE [Act("WALLET_INIT_ERROR") EXCEPT !.error = tasks[mops[o].sub].res])
  /\ mops' = [mops EXCEPT ![o] = FreeOp]
  /\ mhist' = [mhist EXCEPT !.phase = Advance(@, initState'.type), !.stale = @ \ {o}]
  /\ UNCHANGED <<cacheVars, workletVars, cancelledRef, mview, mcleanups, hookVars, balanceVars, serviceVars>>

\* The consumer calls the retry of the last render.
MRetry ==
  /\ mview.mounted
  /\ mhist.retries < MaxRetries
  /\ LET retried == initReducer(initState, Act("RETRY"))
         ctx == getStateContext(mview.type, mview.walletExists)
         next == IF ctx.known
                 THEN [Act("INITIALIZE_WALLET") EXCEPT !.exists = ctx.walletExists]
                 ELSE Act("CHECK_WALLET")
     IN
     IF ~mview.isWorkletStarted
     THEN /\ initState' = retried
          /\ stateChanged' = (stateChanged \/ ReturnsNewObject(initState, Act("RETRY")))
     ELSE /\ initState' = initReducer(retried, next)
          /\ stateChanged' = \/ stateChanged
                             \/ ReturnsNewObject(initState, Act("RETRY"))
                             \/ ReturnsNewObject(retried, next)
  /\ cancelledRef' = FALSE
  /\ mhist' = [mhist EXCEPT
                 !.retries = @ + 1,
                 !.phase = Advance(Advance(@, initReducer(initState, Act("RETRY")).type),
                                   initState'.type)]
  /\ UNCHANGED <<cacheVars, workletVars, mview, mcleanups, mops, hookVars, balanceVars, serviceVars>>

\* ------------------------------------------------------------- MachineSpec
\* A cold process with the reducer hook about to mount; secure storage holds
\* a wallet for the hook's identifier, a wallet with its encryption key or its
\* seed missing, or none.
MachineInit ==
  /\ cache = [k \in CacheKeys |-> AbsentEntry]
  /\ \E held \in StoredWallets :
       storage = [i \in Idents |-> IF i = HookIdentifier THEN held ELSE NoCreds]
  /\ tasks = [t \in TaskIds |-> FreeTask]
  /\ genCount = 0
  /\ supplied = [k \in CacheKeys |-> NoCreds]
  /\ written = {}
  /\ store = FreshStore
  /\ starts = [s \in StartIds |-> FreeStart]
  /\ MachineUnmounted
  /\ BalanceIdle
  /\ ServiceIdle
  /\ HookUnmounted

MachineNext ==
  \/ MRender
  \/ \E o \in OpIds : MStartSettled(o)
  \/ \E o \in OpIds, exists \in BOOLEAN : MCheckResolved(o, exists)
  \/ \E o \in OpIds : MCheckRejected(o)
  \/ \E o \in OpIds : MInitSettled(o)
  \/ MRetry
  \/ \E s \in StartIds : StartImportResolved(s)
  \/ \E s \in StartIds : StartImportFailed(s)
  \/ \E s \in StartIds : StartRpcResolved(s)
  \/ \E s \in StartIds : StartRpcRejected(s)
  \/ \E t \in TaskIds, authenticated \in BOOLEAN : CreateAuthReturned(t, authenticated)
  \/ \E t \in TaskIds : CreateGenReturned(t)
  \/ \E t \in TaskIds : CreateGenRejected(t)
  \/ \E t \in TaskIds : CreateWriteDone(t)
  \/ \E t \in TaskIds : CreateWriteRejected(t)
  \/ \E t \in TaskIds : LoadSeedReturned(t)
  \/ \E t \in TaskIds : LoadAllReturned(t)
  \/ \E t \in TaskIds : LoadAllRejected(t)
  \/ \E t \in TaskIds : InitWalletCredentials(t)
  \/ \E t \in TaskIds : InitWdkResolved(t)
  \/ \E t \in TaskIds : InitWdkRejected(t)

MachineSpec == MachineInit /\ [][MachineNext]_vars

\* The same machine under the scheduling the event loop gives it: a render
\* that is due is committed, a remote call in flight settles one way or the
\* other, and the continuation of a settled await runs.
MachineFairSpec ==
  /\ MachineSpec
  /\ WF_vars(MRender)
  /\ WF_vars(\E o \in OpIds : MStartSettled(o))
  /\ WF_vars(\E o \in OpIds : MCheckRejected(o) \/ \E exists \in BOOLEAN : MCheckResolved(o, exists))
  /\ WF_vars(\E o \in OpIds : MInitSettled(o))
  /\ WF_vars(\E s \in StartIds : StartImportResolved(s) \/ StartImportFailed(s))
  /\ WF_vars(\E s \in StartIds : StartRpcResolved(s) \/ StartRpcRejected(s))

\* -------------------------------------------------------------- EnableSpec
\* The parent renders the hook with another value of enabled.
MSetEnabled(en) ==
  /\ mview.mounted
  /\ enabled # en
  /\ mhist.toggles < MaxToggles
  /\ enabled' = en
  /\ mhist' = [mhist EXCEPT !.toggles = @ + 1]
  /\ UNCHANGED <<cacheVars, workletVars, initState, stateChanged, cancelledRef, mview,
                 mcleanups, mops, balanceVars, serviceVars>>
  /\ UNCHANGED <<hstate, refs, hview, hcleanups, hops, controller, hhist>>

\* The reducer hook in a parent that disables and enables the flow.
EnableNext ==
  \/ MRender
  \/ \E en \in BOOLEAN : MSetEnabled(en)
  \/ \E o \in OpIds : MStartSettled(o)
  \/ \E o \in OpIds, exists \in BOOLEAN : MCheckResolved(o, exists)
  \/ \E o \in OpIds : MCheckRejected(o)
  \/ \E o \in OpIds : MInitSettled(o)
  \/ MRetry
  \/ \E s \in StartIds : StartImportResolved(s)
  \/ \E s \in StartIds : StartImportFailed(s)
  \/ \E s \in StartIds : StartRpcResolved(s)
  \/ \E s \in StartIds : StartRpcRejected(s)
  \/ \E t \in TaskIds, authenticated \in BOOLEAN : CreateAuthReturned(t, authenticated)
  \/ \E t \in TaskIds : CreateGenReturned(t)
  \/ \E t \in TaskIds : CreateGenRejected(t)
  \/ \E t \in TaskIds : CreateWriteDone(t)
  \/ \E t \in TaskIds : CreateWriteRejected(t)
  \/ \E t \in TaskIds : LoadSeedReturned(t)
  \/ \E t \in TaskIds : LoadAllReturned(t)
  \/ \E t \in TaskIds : LoadAllRejected(t)
  \/ \E t \in TaskIds : InitWalletCredentials(t)
  \/ \E t \in TaskIds : InitWdkResolved(t)
  \/ \E t \in TaskIds : InitWdkRejected(t)

EnableSpec == MachineInit /\ [][EnableNext]_vars

\* ------------------------------------------------ ref hook: useWdkInitialization
HasFreeHookOp == \E o \in OpIds : hops[o].kind = "none"

NextHookOp ==
  CHOOSE o \in OpIds : hops[o].kind = "none" /\ \A u \in OpIds : u < o => hops[u].kind # "none"

\* The hook may call initializeWallet once more.
CanAttempt ==
  /\ HasFreeHookOp
  /\ \E t \in TaskIds : tasks[t].pc = "free"
  /\ hhist.autoAttempts + hhist.retryAttempts < MaxAttempts

\* abortController?.signal.aborted; no controller, nothing aborted.
Aborted(ctl) == ctl = "aborted"

\* isInitializing of useWalletSetup: the isLoading of the worklet store.
isWalletInitializing(st) == st.isLoading

\* What a render reads: the useState values, the worklet store selectors and
\* the result of useWalletSetup.
HSnapshot ==
  [mounted |-> TRUE, hasWalletChecked |-> hstate.hasWalletChecked,
   walletKnown |-> hstate.walletKnown, walletExists |-> hstate.walletExists,
   initializationError |-> hstate.initializationError,
   walletInitError |-> hstate.walletInitError,
   isWorkletStarted |-> store.isWorkletStarted, isInitialized |-> store.isInitialized,
   isLoading |-> store.isLoading,
   isWalletInitializing |-> isWalletInitializing(store)]

\* isWorkletLoading || isWalletInitializing || (!hasWalletChecked && isWorkletStarted)
isInitializing(v) ==
  v.isLoading \/ v.isWalletInitializing \/ (~v.hasWalletChecked /\ v.isWorkletStarted)

\* walletInitError || initializationError
HookError(v) ==
  IF v.walletInitError # "none" THEN v.walletInitError ELSE v.initializationError

\* The provider's readiness, from the hook's result and the enabled prop.
isReady(isWorkletStarted, en, error, initializing, walletExists, walletInitialized) ==
  IF ~isWorkletStarted THEN FALSE
  ELSE IF ~en THEN TRUE
  ELSE IF error # "none" THEN FALSE
  ELSE IF initializing THEN FALSE
  ELSE IF walletExists /\ ~walletInitialized THEN FALSE
  ELSE TRUE

\* isReady as the provider computes it in the last committed render.
ProviderIsReady ==
  isReady(hview.isWorkletStarted, enabled, HookError(hview), isInitializing(hview),
          hview.walletExists, hview.isInitialized)

\* The guards of the three effects, on the values of the render they close
\* over and on the refs and the signal as they are when the body runs.
WorkletEffectRuns(snap, r, ctl) ==
  /\ ~(snap.isInitialized \/ snap.isLoading \/ r.attemptedWorklet)
  /\ ~Aborted(ctl)

WalletCheckEffectRuns(snap) == snap.isWorkletStarted /\ ~snap.hasWalletChecked

WalletInitEffectRuns(snap, r, ctl) ==
  /\ snap.hasWalletChecked /\ snap.isWorkletStarted
  /\ ~snap.isInitialized
  /\ ~r.authError
  /\ ~(r.attemptedWallet \/ snap.isWalletInitializing)
  /\ ~Aborted(ctl)

\* A cleanup that does not compare operation ids.
InitCleanupActsAlways(captured, r) == captured # 0 /\ ~r.authError

\* The cleanup of the wallet-init effect acts when the operation it captured
\* is still current and no authentication error occurred.
InitCleanupActs(captured, r) == captured # 0 /\ captured = r.opId /\ ~r.authError

\* A render is committed and its effects run: first the cleanups of the
\* effects whose dependencies changed, then their bodies, each up to its
\* first await.
HRender ==
  /\ hview # HSnapshot
  /\ LET snap == HSnapshot
         first == ~hview.mounted
         workletDeps == \/ first
                        \/ snap.isInitialized # hview.isInitialized
                        \/ snap.isLoading # hview.isLoading
         checkDeps == \/ first
                      \/ snap.isWorkletStarted # hview.isWorkletStarted
                      \/ snap.hasWalletChecked # hview.hasWalletChecked
         initDeps == \/ first
                     \/ snap.hasWalletChecked # hview.hasWalletChecked
                     \/ snap.walletKnown # hview.walletKnown
                     \/ snap.walletExists # hview.walletExists
                     \/ snap.isWorkletStarted # hview.isWorkletStarted
                     \/ snap.isWalletInitializing # hview.isWalletInitializing
                     \/ snap.isInitialized # hview.isInitialized
         checkCleaned == checkDeps /\ hcleanups.check # 0
         initCleaned == initDeps /\ InitCleanupActs(hcleanups.init, refs)
         refs1 == IF initCleaned
                  THEN [refs EXCEPT !.opId = @ + 1, !.attemptedWallet = FALSE]
                  ELSE refs
         ctl1 == IF initCleaned /\ controller = "live" THEN "aborted" ELSE controller
         ops1 == IF checkCleaned
                 THEN [hops EXCEPT ![hcleanups.check].cancelled = TRUE]
                 ELSE hops
         runWorklet == workletDeps /\ WorkletEffectRuns(snap, refs1, ctl1)
         runCheck == checkDeps /\ WalletCheckEffectRuns(snap)
         runInit == initDeps /\ WalletInitEffectRuns(snap, refs1, ctl1)
         currentOperationId == refs1.opId + 1
     IN
     /\ hview' = snap
     /\ controller' = ctl1
     /\ hcleanups' = [check |-> IF checkDeps
                                THEN IF runCheck THEN NextHookOp ELSE 0
                                ELSE hcleanups.check,
                      init |-> IF initDeps
                               THEN IF runInit THEN currentOperationId ELSE 0
                               ELSE hcleanups.init]
     /\ IF runWorklet
        THEN /\ HasFreeStart /\ HasFreeHookOp
             /\ hstate' = [hstate EXCEPT !.initializationError = "none"]
             /\ refs' = [refs1 EXCEPT !.attemptedWorklet = TRUE]
             /\ store' = startWorkletStore(store)
             /\ starts' = [starts EXCEPT ![NextStart] = startWorkletTask(store, starts)]
             /\ hops' = [ops1 EXCEPT ![NextHookOp] =
                           [FreeHookOp EXCEPT !.kind = "start", !.sub = NextStart]]
             /\ UNCHANGED <<tasks, hhist>>
        ELSE IF runCheck
        THEN /\ HasFreeHookOp
             /\ hops' = [ops1 EXCEPT ![NextHookOp] = [FreeHookOp EXCEPT !.kind = "check"]]
             /\ refs' = refs1
             /\ UNCHANGED <<hstate, store, starts, tasks, hhist>>
        ELSE IF runInit
        THEN /\ CanAttempt
             /\ refs' = [refs1 EXCEPT !.opId = currentOperationId, !.attemptedWallet = TRUE]
             /\ hstate' = [hstate EXCEPT !.walletInitError = "none"]
             /\ tasks' = [tasks EXCEPT ![NextTask] =
                            InitWalletTask(HookIdentifier, ~snap.walletExists)]
             /\ hops' = [ops1 EXCEPT ![NextHookOp] =
                           [FreeHookOp EXCEPT !.kind = "init", !.sub = NextTask,
                                              !.opId = currentOperationId]]
             /\ hhist' = [hhist EXCEPT !.autoAttempts = @ + 1]
             /\ UNCHANGED <<store, starts>>
        ELSE /\ refs' = refs1
             /\ hops' = ops1
             /\ UNCHANGED <<hstate, store, starts, tasks, hhist>>
  /\ UNCHANGED <<cache, storage, genCount, supplied, written, enabled, machineVars, balanceVars, serviceVars>>

\* initializeWorklet resumes: the startWorklet it awaits has returned or thrown.
HStartSettled(o) ==
  /\ hops[o].kind = "start" /\ starts[hops[o].sub].pc = "done"
  /\ hstate' = IF ~Aborted(controller) /\ starts[hops[o].sub].res = "failed"
               THEN [hstate EXCEPT !.initializationError = ErrStart]
               ELSE hstate
  /\ hops' = [hops EXCEPT ![o] = FreeHookOp]
  /\ UNCHANGED <<cacheVars, workletVars, machineVars, balanceVars, serviceVars>>
  /\ UNCHANGED <<refs, hview, hcleanups, controller, enabled, hhist>>

\* checkWallet resumes with the answer of hasWallet, or in its catch with
\* false: both set the two states unless the effect was cleaned up.
HCheckSettled(o, exists) ==
  /\ hops[o].kind = "check"
  /\ hstate' = IF hops[o].cancelled THEN hstate
               ELSE [hstate EXCEPT !.hasWalletChecked = TRUE, !.walletKnown = TRUE,
                                   !.walletExists = exists]
  /\ hops' = [hops EXCEPT ![o] = FreeHookOp]
  /\ hcleanups' = IF hcleanups.check = o THEN [hcleanups EXCEPT !.check = 0] ELSE hcleanups
  /\ UNCHANGED <<cacheVars, workletVars, machineVars, balanceVars, serviceVars>>
  /\ UNCHANGED <<refs, hview, controller, enabled, hhist>>

HCheckResolved(o, exists) ==
  /\ exists \in HasWalletResults(storage, HookIdentifier)
  /\ HCheckSettled(o, exists)

HCheckRejected(o) ==
  /\ hops[o].kind = "check"
  /\ HCheckSettled(o, FALSE)

\* The initializeWallet awaited by performWalletInitialization has returned or
\* thrown: performWalletInitialization finishes, then the catch of its caller,
\* the effect's initializeWalletFlow or retry.
HInitSettled(o) ==
  /\ hops[o].kind \in {"init", "retry"} /\ tasks[hops[o].sub].pc = "done"
  /\ LET res == tasks[hops[o].sub].res
         current == hops[o].opId = refs.opId
         cancelled == Aborted(controller) \/ ~current
         failed == res # "ok"
         auth == failed /\ isAuthenticationError(res)
         \* the catch of performWalletInitialization, when not cancelled
         recorded == failed /\ ~cancelled
         \* the catch of initializeWalletFlow, on an authentication error
         flowAuth == auth /\ hops[o].kind = "init"
         \* either caller, on a cancelled attempt that is still the current one
         released == (failed \/ cancelled) /\ ~flowAuth /\ cancelled /\ current
     IN
     /\ refs' = [refs EXCEPT
                   !.authError = @ \/ (recorded /\ auth) \/ flowAuth,
                   !.attemptedWallet = IF released THEN FALSE ELSE @]
     /\ hstate' = IF recorded \/ flowAuth
                  THEN [hstate EXCEPT !.walletInitError = res]
                  ELSE hstate
     /\ hhist' = [hhist EXCEPT
                    !.authFailed = @ \/ auth,
                    !.withheld = @ \/ (failed /\ ~flowAuth /\ ~current /\ refs.attemptedWallet)]
  /\ tasks' = [tasks EXCEPT ![hops[o].sub] = FreeTask]
  /\ hops' = [hops EXCEPT ![o] = FreeHookOp]
  /\ UNCHANGED <<cache, storage, genCount, supplied, written, workletVars, machineVars, balanceVars, serviceVars>>
  /\ UNCHANGED <<hview, hcleanups, controller, enabled>>

\* A bug that leaves the authentication flag set on retry.
RetryRefsKeepingFlag(r) == [r EXCEPT !.opId = @ + 1, !.attemptedWallet = FALSE]

\* retry, lines 349-353: the flag is cleared and a new operation id taken.
RetryRefs(r) == [r EXCEPT !.authError = FALSE, !.opId = @ + 1, !.attemptedWallet = FALSE]

\* The consumer calls the retry of the last render.
HRetry ==
  /\ hview.mounted
  /\ hhist.retries < MaxRetries
  /\ LET refs1 == RetryRefs(refs)
         starts1 == /\ hview.hasWalletChecked /\ hview.isWorkletStarted
                    /\ ~Aborted(controller)
     IN
     /\ hstate' = [hstate EXCEPT !.walletInitError = "none", !.initializationError = "none"]
     /\ IF starts1
        THEN /\ CanAttempt
             /\ refs' = [refs1 EXCEPT !.attemptedWallet = TRUE]
             /\ tasks' = [tasks EXCEPT ![NextTask] =
                            InitWalletTask(HookIdentifier, ~hview.walletExists)]
             /\ hops' = [hops EXCEPT ![NextHookOp] =
                           [FreeHookOp EXCEPT !.kind = "retry", !.sub = NextTask,
                                              !.opId = refs1.opId]]
        ELSE /\ refs' = refs1
             /\ UNCHANGED <<tasks, hops>>
     /\ hhist' = [hhist EXCEPT
                    !.retries = @ + 1,
                    !.retryAttempts = IF starts1 THEN @ + 1 ELSE @,
                    !.retriedSuppressed = IF hhist.authFailed THEN @ + 1 ELSE @,
                    !.authFailed = FALSE]
  /\ UNCHANGED <<cache, storage, genCount, supplied, written, workletVars, machineVars, balanceVars, serviceVars>>
  /\ UNCHANGED <<hview, hcleanups, controller, enabled>>

\* ---------------------------------------------------------------- HookSpec
\* A cold process with the ref hook about to mount in a provider, enabled or
\* not, with an abort controller or none; secure storage holds a wallet for
\* the hook's identifier, or none.
HookInit ==
  /\ cache = [k \in CacheKeys |-> AbsentEntry]
  /\ \E held \in {NoCreds, StoredWallet} :
       storage = [i \in Idents |-> IF i = HookIdentifier THEN held ELSE NoCreds]
  /\ tasks = [t \in TaskIds |-> FreeTask]
  /\ genCount = 0
  /\ supplied = [k \in CacheKeys |-> NoCreds]
  /\ written = {}
  /\ store = FreshStore
  /\ starts = [s \in StartIds |-> FreeStart]
  /\ MachineUnmounted
  /\ BalanceIdle
  /\ ServiceIdle
  /\ \E ctl \in {"none", "live"}, en \in BOOLEAN : HookUnmountedWith(ctl, en)

HookNext ==
  \/ HRender
  \/ \E o \in OpIds : HStartSettled(o)
  \/ \E o \in OpIds, exists \in BOOLEAN : HCheckResolved(o, exists)
  \/ \E o \in OpIds : HCheckRejected(o)
  \/ \E o \in OpIds : HInitSettled(o)
  \/ HRetry
  \/ \E s \in StartIds : StartImportResolved(s)
  \/ \E s \in StartIds : StartImportFailed(s)
  \/ \E s \in StartIds : StartRpcResolved(s)
  \/ \E s \in StartIds : StartRpcRejected(s)
  \/ \E t \in TaskIds, authenticated \in BOOLEAN : CreateAuthReturned(t, authenticated)
  \/ \E t \in TaskIds : CreateGenReturned(t)
  \/ \E t \in TaskIds : CreateGenRejected(t)
  \/ \E t \in TaskIds : CreateWriteDone(t)
  \/ \E t \in TaskIds : CreateWriteRejected(t)
  \/ \E t \in TaskIds : LoadSeedReturned(t)
  \/ \E t \in TaskIds : LoadAllReturned(t)
  \/ \E t \in TaskIds : LoadAllRejected(t)
  \/ \E t \in TaskIds : InitWalletCredentials(t)
  \/ \E t \in TaskIds : InitWdkResolved(t)
  \/ \E t \in TaskIds : InitWdkRejected(t)

HookSpec == HookInit /\ [][HookNext]_vars

\* ------------------------------------------------------------- BalanceSpec
RECURSIVE Flatten(_)
Flatten(ss) == IF ss = <<>> THEN <<>> ELSE Head(ss) \o Flatten(Tail(ss))

\* The fetchBalance calls of fetchAllBalancesForWallet, in the order it makes
\* them: networks.forEach(tokens.forEach(...)).
WalletKeys(cfg, accountIndex) ==
  LET networks == getSupportedNetworks(cfg) IN
  Flatten([i \in 1..Len(networks) |->
     LET tokens == getTokensForNetwork(cfg, networks[i]) IN
     [j \in 1..Len(tokens) |-> <<networks[i], accountIndex, tokens[j]>>]])

\* The fetchBalance calls of fetchBalancesForNetwork: allWallets.flatMap(tokens.map(...)).
NetworkKeys(cfg, ws, network) ==
  LET allWallets == getAllWallets(ws)
      tokens == getTokensForNetwork(cfg, network) IN
  Flatten([i \in 1..Len(allWallets) |->
     [j \in 1..Len(tokens) |-> <<network, allWallets[i], tokens[j]>>]])

\* The fetchBalance calls of fetchBalancesForWalletAndNetwork: tokens.map(...).
WalletAndNetworkKeys(cfg, accountIndex, network) ==
  LET tokens == getTokensForNetwork(cfg, network) IN
  [j \in 1..Len(tokens) |-> <<network, accountIndex, tokens[j]>>]

\* The fetchBalance calls of the parallel fetchAllBalances: every wallet's.
AllKeys(cfg, ws) ==
  LET allWallets == getAllWallets(ws) IN
  Flatten([i \in 1..Len(allWallets) |-> WalletKeys(cfg, allWallets[i])])

\* A bug that takes the session for initialized whatever the store says.
getIsInitializedAlways(st) == TRUE

\* getIsInitialized: the worklet store's flag, read when called.
getIsInitialized(st) == st.isInitialized

\* callAccountMethod up to its await: it throws without an initialized
\* session holding an hrpc, else issues hrpc.callMethod.
callAccountMethod(st) == IF st.isInitialized /\ st.hrpc THEN "remote" ELSE "throwing"

RECURSIVE fetchBalanceAll(_, _, _)
\* fetchBalance up to its await, for each key in turn, on an initialized
\* session: it sets the loading flag; the fetch is then at callAccountMethod.
fetchBalanceAll(ws, keys, st) ==
  IF keys = <<>> THEN ws
  ELSE fetchBalanceAll(setBalanceLoading(ws, Head(keys)[1], Head(keys)[2], Head(keys)[3], TRUE),
                       Tail(keys), st)

Range(seq) == {seq[i] : i \in 1..Len(seq)}

\* The fetches of a run after it has called fetchBalance for keys.
Fetching(fs, keys, st) ==
  [k \in FetchKeys |-> IF k \in Range(keys)
                       THEN [FreeFetch EXCEPT !.pc = callAccountMethod(st)] ELSE fs[k]]

Pending(fs) == {k \in FetchKeys : fs[k].pc \in {"remote", "throwing"}}

\* The results of the fetches for keys, in the order of keys (Promise.all).
ResultsOf(fs, keys) == [i \in 1..Len(keys) |-> fs[keys[i]].res]

LastOf(order, w) ==
  CHOOSE i \in 1..Len(order) : order[i][2] = w /\ \A j \in (i + 1)..Len(order) : order[j][2] # w

RECURSIVE ByWalletCompletion(_, _)
\* The parallel fetchAllBalances: each wallet pushes its results, which are in
\* completion order, when its last fetch has completed.
ByWalletCompletion(order, wallets) ==
  IF wallets = {} THEN <<>>
  ELSE LET w == CHOOSE x \in wallets : \A y \in wallets : LastOf(order, x) <= LastOf(order, y)
       IN SelectSeq(order, LAMBDA k : k[2] = w) \o ByWalletCompletion(order, wallets \ {w})

\* A method of the balance fetcher that finds the session not initialized:
\* fetchBalance returns one failed result, every other method an empty list.
NotInitializedResults(kind, key) ==
  IF kind = "fetchBalance" THEN <<FetchFailed(key, ErrWalletNotInitialized)>> ELSE <<>>

\* A new call takes the first slot that holds no pending call; what an earlier
\* call returned there is forgotten.
CanTakeRun(r) ==
  /\ runs[r].pc \in {"free", "done"}
  /\ \A q \in RunIds : q < r => runs[q].pc = "awaiting"

\* A method of the balance fetcher is called and runs up to its first await:
\* with the session not initialized it returns at once; else it calls
\* fetchBalance for keys without awaiting any, and awaits them all.  key holds
\* the arguments of the call; todo are the wallets the sequential
\* fetchAllBalances has still to process.
StartRun(r, kind, owner, key, keys, todo) ==
  IF ~getIsInitialized(store)
  THEN /\ runs' = [runs EXCEPT ![r] =
             [FreeRun EXCEPT !.kind = kind, !.owner = owner, !.args = key, !.pc = "done",
                             !.results = NotInitializedResults(kind, key)]]
       /\ fetches' = [fetches EXCEPT ![r] = NoFetches]
       /\ UNCHANGED walletStore
  ELSE IF keys = <<>>
  THEN /\ runs' = [runs EXCEPT ![r] =
             [FreeRun EXCEPT !.kind = kind, !.owner = owner, !.args = key, !.pc = "done"]]
       /\ fetches' = [fetches EXCEPT ![r] = NoFetches]
       /\ UNCHANGED walletStore
  ELSE /\ runs' = [runs EXCEPT ![r] =
             [FreeRun EXCEPT !.kind = kind, !.owner = owner, !.args = key, !.pc = "awaiting",
                             !.spawned = keys, !.todo = todo]]
       /\ fetches' = [fetches EXCEPT ![r] = Fetching(NoFetches, keys, store)]
       /\ walletStore' = fetchBalanceAll(walletStore, keys, store)

\* fetchAllBalances up to its first await: the sequential definition calls
\* fetchAllBalancesForWallet for the first wallet, the parallel one for all.
fetchAllBalances(r, owner) ==
  LET allWallets == getAllWallets(walletStore) IN
  IF definition = "sequential"
  THEN IF allWallets = <<>>
       THEN StartRun(r, "fetchAllBalances", owner, <<"", 0, "">>, <<>>, <<>>)
       ELSE StartRun(r, "fetchAllBalances", owner, <<"", 0, "">>,
                     WalletKeys(tokenConfigs, Head(allWallets)), Tail(allWallets))
  ELSE StartRun(r, "fetchAllBalances", owner, <<"", 0, "">>,
                AllKeys(tokenConfigs, walletStore), <<>>)

\* No call of the balance fetcher is pending.
NoRunPending == \A r \in RunIds : runs[r].pc # "awaiting"

\* The application calls fetchBalance.
FetchBalanceCall(r, key) ==
  /\ CanTakeRun(r) /\ apiCalls < MaxCalls
  /\ StartRun(r, "fetchBalance", "api", key, <<key>>, <<>>)
  /\ apiCalls' = apiCalls + 1
  /\ UNCHANGED <<tokenConfigs, definition, sync>>
  /\ UNCHANGED <<cacheVars, workletVars, machineVars, hookVars, serviceVars>>

\* The application calls fetchAllBalancesForWallet.
FetchAllBalancesForWalletCall(r, accountIndex) ==
  /\ CanTakeRun(r) /\ apiCalls < MaxCalls /\ NoRunPending
  /\ StartRun(r, "fetchAllBalancesForWallet", "api", <<"", accountIndex, "">>,
              WalletKeys(tokenConfigs, accountIndex), <<>>)
  /\ apiCalls' = apiCalls + 1
  /\ UNCHANGED <<tokenConfigs, definition, sync>>
  /\ UNCHANGED <<cacheVars, workletVars, machineVars, hookVars, serviceVars>>

\* The application calls fetchAllBalances.
FetchAllBalancesCall(r) ==
  /\ CanTakeRun(r) /\ apiCalls < MaxCalls /\ NoRunPending
  /\ fetchAllBalances(r, "api")
  /\ apiCalls' = apiCalls + 1
  /\ UNCHANGED <<tokenConfigs, definition, sync>>
  /\ UNCHANGED <<cacheVars, workletVars, machineVars, hookVars, serviceVars>>

\* The application calls fetchBalancesForNetwork.
FetchBalancesForNetworkCall(r, network) ==
  /\ CanTakeRun(r) /\ apiCalls < MaxCalls /\ NoRunPending
  /\ StartRun(r, "fetchBalancesForNetwork", "api", <<network, 0, "">>,
              NetworkKeys(tokenConfigs, walletStore, network), <<>>)
  /\ apiCalls' = apiCalls + 1
  /\ UNCHANGED <<tokenConfigs, definition, sync>>
  /\ UNCHANGED <<cacheVars, workletVars, machineVars, hookVars, serviceVars>>

\* The application calls fetchBalancesForWalletAndNetwork.
FetchBalancesForWalletAndNetworkCall(r, accountIndex, network) ==
  /\ CanTakeRun(r) /\ apiCalls < MaxCalls /\ NoRunPending
  /\ StartRun(r, "fetchBalancesForWalletAndNetwork", "api", <<network, accountIndex, "">>,
              WalletAndNetworkKeys(tokenConfigs, accountIndex, network), <<>>)
  /\ apiCalls' = apiCalls + 1
  /\ UNCHANGED <<tokenConfigs, definition, sync>>
  /\ UNCHANGED <<cacheVars, workletVars, machineVars, hookVars, serviceVars>>

\* What a run returns when all its fetches have completed: Promise.all keeps
\* the order of the calls; the parallel definition pushes each result when
\* its fetch completes.
Returned(run, fs) ==
  IF definition = "sequential" \/ run.kind = "fetchBalance"
  THEN run.results \o ResultsOf(fs, run.spawned)
  ELSE IF run.kind = "fetchAllBalances"
  THEN ResultsOf(fs, ByWalletCompletion(run.order, {run.order[i][2] : i \in 1..Len(run.order)}))
  ELSE ResultsOf(fs, run.order)

\* A fetch of run r has completed, leaving the run's fetches as fs and the
\* wallet store as ws: the run goes on when none of the fetches it awaits is
\* pending.  The sequential fetchAllBalances then calls
\* fetchAllBalancesForWallet for the next wallet, which returns [] when the
\* session is no longer initialized.
Continue(r, key, fs, ws) ==
  LET run == [runs[r] EXCEPT !.order = IF definition = "parallel" THEN Append(@, key) ELSE @] IN
  IF Pending(fs) # {}
  THEN /\ runs' = [runs EXCEPT ![r] = run]
       /\ fetches' = [fetches EXCEPT ![r] = fs]
       /\ walletStore' = ws
  ELSE IF run.todo = <<>> \/ ~getIsInitialized(store)
  THEN /\ runs' = [runs EXCEPT ![r] =
             [run EXCEPT !.pc = "done", !.results = Returned(run, fs), !.todo = <<>>]]
       /\ fetches' = [fetches EXCEPT ![r] = fs]
       /\ walletStore' = ws
  ELSE LET keys == WalletKeys(tokenConfigs, Head(run.todo)) IN
       /\ runs' = [runs EXCEPT ![r] =
             [run EXCEPT !.results = Returned(run, fs), !.spawned = keys,
                         !.todo = Tail(run.todo)]]
       /\ fetches' = [fetches EXCEPT ![r] = Fetching(fs, keys, store)]
       /\ walletStore' = fetchBalanceAll(ws, keys, store)

\* A bug that leaves the loading flag set when the account method call fails.
fetchBalanceFailedKeepingFlag(ws, key) == ws

\* fetchBalance's catch: the loading flag is cleared.
fetchBalanceFailed(ws, key) == setBalanceLoading(ws, key[1], key[2], key[3], FALSE)

\* fetchBalance after a successful account method call: the balance and the
\* time of the update are stored and the loading flag is cleared.
fetchBalanceSucceeded(ws, key, balance) ==
  setBalanceLoading(
    updateLastBalanceUpdate(updateBalance(ws, key[2], key[1], key[3], balance), key[1], key[2]),
    key[1], key[2], key[3], FALSE)

\* The provider's async function that awaited a fetchAllBalances call goes
\* on when the call returns: the automatic fetch notes its completion, and
\* the finally block clears isFetchingBalances.
Settled(sy, run, after) ==
  IF run.owner \in {"auto", "timer", "manual"} /\ after.pc = "done"
  THEN [sy EXCEPT !.isFetchingBalances = FALSE,
                  !.hasCompletedInitialBalanceFetch = @ \/ run.owner = "auto"]
  ELSE sy

\* hrpc.callMethod resolves with a result for the fetch of key by run r.
BalanceResolved(r, key, balanceResult) ==
  /\ fetches[r][key].pc = "remote"
  /\ LET balance == convertBalanceToString(balanceResult) IN
     Continue(r, key,
              [fetches[r] EXCEPT ![key] = [pc |-> "done", res |-> FetchSucceeded(key, balance)]],
              fetchBalanceSucceeded(walletStore, key, balance))
  /\ sync' = Settled(sync, runs[r], runs'[r])
  /\ UNCHANGED <<tokenConfigs, definition, apiCalls>>
  /\ UNCHANGED <<cacheVars, workletVars, machineVars, hookVars, serviceVars>>

\* callAccountMethod throws for the fetch of key by run r: before the call
\* ("WDK not initialized") or with the failure of hrpc.callMethod.
BalanceRejected(r, key) ==
  /\ fetches[r][key].pc \in {"remote", "throwing"}
  /\ LET error == IF fetches[r][key].pc = "throwing" THEN ErrWdkNotInitialized ELSE ErrRemote IN
     Continue(r, key,
              [fetches[r] EXCEPT ![key] = [pc |-> "done", res |-> FetchFailed(key, error)]],
              fetchBalanceFailed(walletStore, key))
  /\ sync' = Settled(sync, runs[r], runs'[r])
  /\ UNCHANGED <<tokenConfigs, definition, apiCalls>>
  /\ UNCHANGED <<cacheVars, workletVars, machineVars, hookVars, serviceVars>>

\* WorkletService.reset(): both stores go back to their initial values.
WorkletReset ==
  /\ store.isWorkletStarted
  /\ store' = FreshStore
  /\ walletStore' = EmptyWalletStore
  /\ UNCHANGED <<tokenConfigs, definition, runs, fetches, apiCalls, sync>>
  /\ UNCHANGED <<cacheVars, starts, machineVars, hookVars, serviceVars>>

\* WorkletService.reset() called at any moment (logout, wallet deletion),
\* whatever is in flight; a call that would change nothing is left out.
SessionReset ==
  /\ store # FreshStore \/ walletStore # EmptyWalletStore
  /\ store' = FreshStore
  /\ walletStore' = EmptyWalletStore
  /\ UNCHANGED <<tokenConfigs, definition, runs, fetches, apiCalls, sync>>
  /\ UNCHANGED <<cacheVars, starts, machineVars, hookVars, serviceVars>>

\* A session that initializeWallet has initialized.
InitializedStore ==
  [StartedStore EXCEPT !.isInitialized = TRUE,
                       !.encryptionKey = Cred(0, "encryptionKey"),
                       !.encryptedSeed = Cred(0, "encryptedSeed")]

\* ------------------------------------------------------------ deleteWallet
\* deleteWallet up to its await: secureStorage.deleteWallet(identifier).
DeleteCall(t, id) ==
  /\ CanTake(t)
  /\ tasks' = [tasks EXCEPT ![t] =
        Called([FreeTask EXCEPT !.op = "delete", !.id = id, !.pc = "deleteWallet"],
               "deleteWallet")]
  /\ UNCHANGED <<cache, storage, genCount, supplied, written>>
  /\ UNCHANGED <<workletVars, uiVars>>

\* Secure storage has removed the identifier's entry; the promise is resolved
\* and deleteWallet is yet to resume.
DeleteStorageResolved(t) ==
  /\ tasks[t].op = "delete" /\ tasks[t].pc = "deleteWallet"
  /\ storage' = [storage EXCEPT ![tasks[t].id] = NoCreds]
  /\ tasks' = [MarkDirty(tasks, tasks[t].id) EXCEPT ![t] = [tasks[t] EXCEPT !.pc = "deleted"]]
  /\ UNCHANGED <<cache, genCount, supplied, written>>
  /\ UNCHANGED <<workletVars, uiVars>>

\* secureStorage.deleteWallet rejects: deleteWallet throws at its await.
DeleteStorageRejected(t) ==
  /\ tasks[t].op = "delete" /\ tasks[t].pc = "deleteWallet"
  /\ tasks' = [tasks EXCEPT ![t] = Done(tasks[t], ErrDelete)]
  /\ UNCHANGED <<cache, storage, genCount, supplied, written>>
  /\ UNCHANGED <<workletVars, uiVars>>

\* deleteWallet resumes: WorkletLifecycleService.reset(), then
\* clearCredentialsCache(identifier).
DeleteReturned(t) ==
  /\ tasks[t].op = "delete" /\ tasks[t].pc = "deleted"
  /\ store' = FreshStore
  /\ walletStore' = EmptyWalletStore
  /\ cache' = clearCredentialsCache(cache, tasks[t].id)
  /\ supplied' = noteCleared(supplied, tasks[t].id)
  /\ tasks' = [MarkCleared(tasks, tasks[t].id) EXCEPT ![t] = Done(tasks[t], "ok")]
  /\ UNCHANGED <<storage, genCount, written>>
  /\ UNCHANGED <<tokenConfigs, definition, runs, fetches, apiCalls, sync>>
  /\ UNCHANGED <<starts, machineVars, hookVars, serviceVars>>

\* -------------------------------------------------------------- DeleteSpec
\* An initialized session with addresses and balances in the wallet store and
\* a wallet in secure storage under each identifier; nothing cached yet.
DeleteInit ==
  /\ cache = [k \in CacheKeys |-> AbsentEntry]
  /\ storage = [i \in Idents |-> StoredWallet]
  /\ tasks = [t \in TaskIds |-> FreeTask]
  /\ genCount = 0
  /\ supplied = [k \in CacheKeys |-> NoCreds]
  /\ written = {}
  /\ store = InitializedStore
  /\ starts = [s \in StartIds |-> FreeStart]
  /\ MachineUnmounted
  /\ HookUnmounted
  /\ ServiceIdle
  /\ walletStore = [EmptyWalletStore EXCEPT
                      !.addresses = {"eth"} \X Accounts,
                      !.balances = [k \in StoreKeys |-> Str(D1000)]]
  /\ tokenConfigs = <<[network |-> "eth", native |-> Native, tokens |-> <<"usdt">>]>>
  /\ definition = "sequential"
  /\ runs = [r \in RunIds |-> FreeRun]
  /\ fetches = [r \in RunIds |-> NoFetches]
  /\ apiCalls = 0
  /\ sync = ProviderUnmounted(TRUE, 30000)

\* deleteWallet beside the readers of the credentials.
DeleteNext ==
  \/ \E t \in TaskIds, id \in Idents : DeleteCall(t, id)
  \/ \E t \in TaskIds : DeleteStorageResolved(t)
  \/ \E t \in TaskIds : DeleteStorageRejected(t)
  \/ \E t \in TaskIds : DeleteReturned(t)
  \/ \E t \in TaskIds : StorageRead(t)
  \/ \E t \in TaskIds, id \in Idents : LoadCall(t, id)
  \/ \E t \in TaskIds : LoadSeedReturned(t)
  \/ \E t \in TaskIds : LoadAllReturned(t)
  \/ \E t \in TaskIds : LoadAllRejected(t)
  \/ \E t \in TaskIds, id \in Idents, f \in Fields : GetFieldCall(t, id, f)
  \/ \E t \in TaskIds : GetFieldReturned(t)
  \/ \E t \in TaskIds : GetKeyRejected(t)

DeleteSpec == DeleteInit /\ [][DeleteNext]_vars

\* ------------------------------------------------------------- SessionSpec
\* The callers of startWorklet and initializeWDK of StartSpec, with reset().
SessionNext ==
  \/ \E s \in StartIds : StartWorkletCall(s)
  \/ \E s \in StartIds : StartImportResolved(s)
  \/ \E s \in StartIds : StartImportFailed(s)
  \/ \E s \in StartIds : StartRpcResolved(s)
  \/ \E s \in StartIds : StartRpcRejected(s)
  \/ \E t \in TaskIds, id \in Idents :
       HasFreeTask /\ InitWalletCall(t, id, id = "undef")
  \/ \E t \in TaskIds : CreateAuthReturned(t, TRUE)
  \/ \E t \in TaskIds : CreateStartReturned(t)
  \/ \E t \in TaskIds : CreateGenReturned(t)
  \/ \E t \in TaskIds : CreateWriteDone(t)
  \/ \E t \in TaskIds : LoadSeedReturned(t)
  \/ \E t \in TaskIds : LoadAllReturned(t)
  \/ \E t \in TaskIds : InitWalletCredentials(t)
  \/ \E t \in TaskIds : InitWalletStartReturned(t)
  \/ \E t \in TaskIds : InitWdkResolved(t)
  \/ \E t \in TaskIds : InitWdkRejected(t)
  \/ SessionReset

SessionSpec == StartInit /\ [][SessionNext]_vars

\* initializeWallet suspended at hrpc.initializeWDK.
InitializingTask ==
  Called([FreeTask EXCEPT !.op = "load", !.id = HookIdentifier, !.outer = TRUE,
            !.pc = "initializeWDK",
            !.key = Cred(0, "encryptionKey"), !.seed = Cred(0, "encryptedSeed")],
         "initializeWDK")

\* The application with every account's address cached and the session either
\* initialized or being initialized by an initializeWallet in flight.
BalanceInit ==
  /\ cache = [k \in CacheKeys |-> AbsentEntry]
  /\ storage = [i \in Idents |-> IF i = HookIdentifier THEN StoredWallet ELSE NoCreds]
  /\ genCount = 0
  /\ supplied = [k \in CacheKeys |-> NoCreds]
  /\ written = {}
  /\ starts = [s \in StartIds |-> FreeStart]
  /\ \/ /\ store = InitializedStore
        /\ tasks = [t \in TaskIds |-> FreeTask]
     \/ /\ store = [StartedStore EXCEPT !.isLoading = TRUE]
        /\ tasks = [t \in TaskIds |-> IF t = 1 THEN InitializingTask ELSE FreeTask]
  /\ MachineUnmounted
  /\ HookUnmounted
  /\ \E cfg \in TokenConfigChoices, def \in Definitions : BalanceIdleWith(cfg, def)
  /\ ServiceIdle

BalanceNext ==
  \/ \E r \in RunIds, key \in FetchKeys : FetchBalanceCall(r, key)
  \/ \E r \in RunIds, a \in Accounts : FetchAllBalancesForWalletCall(r, a)
  \/ \E r \in RunIds : FetchAllBalancesCall(r)
  \/ \E r \in RunIds, n \in Networks : FetchBalancesForNetworkCall(r, n)
  \/ \E r \in RunIds, a \in Accounts, n \in Networks :
       FetchBalancesForWalletAndNetworkCall(r, a, n)
  \/ \E r \in RunIds, key \in FetchKeys, v \in RemoteResults : BalanceResolved(r, key, v)
  \/ \E r \in RunIds, key \in FetchKeys : BalanceRejected(r, key)
  \/ WorkletReset
  \/ \E t \in TaskIds : InitWdkResolved(t)
  \/ \E t \in TaskIds : InitWdkRejected(t)

BalanceSpec == BalanceInit /\ [][BalanceNext]_vars

\* ---------------------------------------------------------------- SyncSpec
\* isReady of WdkAppProvider (provider/WdkAppProvider.tsx).
isReadyOfProvider(requireBiometric, biometricAuthenticated, isWorkletStarted, hasWalletChecked, initializing, walletExists, walletInitialized, isWorkletInitialized) ==
  IF requireBiometric /\ ~biometricAuthenticated THEN FALSE
  ELSE IF ~isWorkletStarted THEN FALSE
  ELSE IF ~hasWalletChecked THEN FALSE
  ELSE IF initializing THEN FALSE
  ELSE IF walletExists /\ ~walletInitialized THEN FALSE
  ELSE IF ~isWorkletInitialized THEN FALSE
  ELSE TRUE

\* What a render of the provider reads, in a provider without a biometric
\* requirement that has found its wallet to exist.
PSnapshot ==
  [walletInitialized |-> store.isInitialized,
   isReady |-> isReadyOfProvider(FALSE, TRUE, store.isWorkletStarted, TRUE,
                                 isWalletInitializing(store), TRUE,
                                 store.isInitialized, store.isInitialized),
   isFetchingBalances |-> sync.isFetchingBalances]

\* The automatic balance fetch effect goes past its guard.
AutoFetchEffectRuns(sy, snap) ==
  ~(\/ ~sy.autoFetchBalances \/ ~snap.walletInitialized \/ ~snap.isReady
    \/ sy.hasCompletedInitialBalanceFetch)

\* A bug that sets the interval up whatever balanceRefreshInterval is.
IntervalEffectRunsWithoutInterval(sy, snap) ==
  /\ sy.autoFetchBalances
  /\ ~(~snap.isReady \/ snap.isFetchingBalances)

\* The auto-refresh effect goes past its two guards and calls setInterval.
IntervalEffectRuns(sy, snap) ==
  /\ ~(\/ ~sy.autoFetchBalances \/ sy.balanceRefreshInterval = 0
       \/ sy.balanceRefreshInterval <= 0)
  /\ ~(~snap.isReady \/ snap.isFetchingBalances)

HasFreeRun == \E r \in RunIds : CanTakeRun(r)

NextRun == CHOOSE r \in RunIds : CanTakeRun(r)

\* One of the provider's three async functions up to its await:
\* setIsFetchingBalances(true) and the call of fetchAllBalances, and what
\* follows the await when fetchAllBalances returns at once.
ProviderFetch(owner, sy) ==
  /\ HasFreeRun
  /\ fetchAllBalances(NextRun, owner)
  /\ sync' = Settled([sy EXCEPT !.isFetchingBalances = TRUE, !.triggers = @ \cup {owner}],
                     runs'[NextRun], runs'[NextRun])

\* The provider renders and runs the effects whose dependencies changed: the
\* cleanup of the auto-refresh effect (clearInterval), the automatic balance
\* fetch effect, the auto-refresh effect.
PRender ==
  LET snap == PSnapshot
      first == ~sync.mounted
      autoDeps == \/ first
                  \/ snap.walletInitialized # sync.view.walletInitialized
                  \/ snap.isReady # sync.view.isReady
      intervalDeps == \/ first
                      \/ snap.isReady # sync.view.isReady
                      \/ snap.isFetchingBalances # sync.view.isFetchingBalances
      rendered == [sync EXCEPT !.mounted = TRUE, !.view = snap,
                     !.interval = IF intervalDeps THEN IntervalEffectRuns(sync, snap) ELSE @]
  IN
  /\ first \/ snap # sync.view
  /\ IF autoDeps /\ AutoFetchEffectRuns(sync, snap)
     THEN ProviderFetch("auto", rendered)
     ELSE /\ sync' = rendered
          /\ UNCHANGED <<walletStore, runs, fetches>>
  /\ UNCHANGED <<tokenConfigs, definition, apiCalls>>
  /\ UNCHANGED <<cacheVars, workletVars, machineVars, hookVars, serviceVars>>

\* The consumer calls the refreshBalances of the last render.
PRefresh ==
  /\ sync.mounted /\ sync.refreshes < MaxRefreshes
  /\ IF ~sync.view.walletInitialized \/ sync.view.isFetchingBalances
     THEN /\ sync' = [sync EXCEPT !.refreshes = @ + 1, !.skipped = @ + 1]
          /\ UNCHANGED <<walletStore, runs, fetches>>
     ELSE ProviderFetch("manual", [sync EXCEPT !.refreshes = @ + 1])
  /\ UNCHANGED <<tokenConfigs, definition, apiCalls>>
  /\ UNCHANGED <<cacheVars, workletVars, machineVars, hookVars, serviceVars>>

\* The interval set by the auto-refresh effect fires.
PTimerFire ==
  /\ sync.interval /\ sync.ticks < MaxTicks
  /\ ProviderFetch("timer", [sync EXCEPT !.ticks = @ + 1])
  /\ UNCHANGED <<tokenConfigs, definition, apiCalls>>
  /\ UNCHANGED <<cacheVars, workletVars, machineVars, hookVars, serviceVars>>

\* The provider about to render with account 0's address cached, the wallet
\* found and initializeWallet in flight or done; autoFetchBalances and
\* balanceRefreshInterval are any of the values considered.
SyncInit ==
  /\ cache = [k \in CacheKeys |-> AbsentEntry]
  /\ storage = [i \in Idents |-> IF i = HookIdentifier THEN StoredWallet ELSE NoCreds]
  /\ genCount = 0
  /\ supplied = [k \in CacheKeys |-> NoCreds]
  /\ written = {}
  /\ starts = [s \in StartIds |-> FreeStart]
  /\ \/ /\ store = InitializedStore
        /\ tasks = [t \in TaskIds |-> FreeTask]
     \/ /\ store = [StartedStore EXCEPT !.isLoading = TRUE]
        /\ tasks = [t \in TaskIds |-> IF t = 1 THEN InitializingTask ELSE FreeTask]
  /\ MachineUnmounted
  /\ HookUnmounted
  /\ walletStore = [EmptyWalletStore EXCEPT !.addresses = {<<"eth", 0>>}]
  /\ tokenConfigs \in TokenConfigChoices
  /\ definition \in Definitions
  /\ runs = [r \in RunIds |-> FreeRun]
  /\ fetches = [r \in RunIds |-> NoFetches]
  /\ apiCalls = 0
  /\ \E auto \in BOOLEAN, interval \in {0, 30000} : sync = ProviderUnmounted(auto, interval)
  /\ ServiceIdle

SyncNext ==
  \/ PRender
  \/ PRefresh
  \/ PTimerFire
  \/ \E r \in RunIds, key \in FetchKeys, v \in RemoteResults : BalanceResolved(r, key, v)
  \/ \E r \in RunIds, key \in FetchKeys : BalanceRejected(r, key)
  \/ \E t \in TaskIds : InitWdkResolved(t)
  \/ \E t \in TaskIds : InitWdkRejected(t)

SyncSpec == SyncInit /\ [][SyncNext]_vars

\* ------------------------------------------------------------- AccountSpec
\* The two classes that offer callAccountMethod: AddressService
\* (services/addressService.ts) and WorkletService (services/workletService.ts).
Services == {"AddressService", "WorkletService"}

ALLOWED_ACCOUNT_METHODS ==
  {"getAddress", "getBalance", "getTokenBalance", "signMessage", "signTransaction",
   "sendTransaction"}

\* The method names callers pass: the allowed ones, the empty string, a name
\* of blanks, a name that is not listed and a listed name with a trailing blank.
MethodNames == ALLOWED_ACCOUNT_METHODS \cup {"", " ", "dispose", "getBalance "}

\* String.prototype.trim on the names above.
trim(methodName) ==
  IF methodName = " " THEN ""
  ELSE IF methodName = "getBalance " THEN "getBalance"
  ELSE methodName

\* The network names callers pass; "" is not a valid network name.
NetworkNames == Networks \cup {""}

isValidNetworkName(network) == network # ""

\* The account indexes callers pass.
AccountIndexes == {-1, 0}

isValidAccountIndex(accountIndex) == accountIndex >= 0

ErrMethodName == "methodName must be a non-empty string"
ErrNotAllowed == "Method is not allowed"
ErrNetworkName == "network must be a valid network name"
ErrAccountIndex == "accountIndex must be a non-negative integer"

\* A bug that lets every non-empty method name through.
AddressService_validateAllowingAll(network, accountIndex, methodName) ==
  IF trim(methodName) = "" THEN ErrMethodName
  ELSE IF ~isValidNetworkName(network) THEN ErrNetworkName
  ELSE IF ~isValidAccountIndex(accountIndex) THEN ErrAccountIndex
  ELSE "none"

\* AddressService.callAccountMethod, its argument checks: the error thrown, if any.
AddressService_validate(network, accountIndex, methodName) ==
  IF trim(methodName) = "" THEN ErrMethodName
  ELSE IF methodName \notin ALLOWED_ACCOUNT_METHODS THEN ErrNotAllowed
  ELSE IF ~isValidNetworkName(network) THEN ErrNetworkName
  ELSE IF ~isValidAccountIndex(accountIndex) THEN ErrAccountIndex
  ELSE "none"

\* callAccountMethod of a service up to its await: the error it throws, or
\* "none" when it goes on to hrpc.callMethod.
callAccountMethodThrows(service, st, network, accountIndex, methodName) ==
  LET invalid == IF service = "AddressService"
                 THEN AddressService_validate(network, accountIndex, methodName)
                 ELSE "none"
  IN IF invalid # "none" THEN invalid
     ELSE IF callAccountMethod(st) = "throwing" THEN ErrWdkNotInitialized
     ELSE "none"

\* The application calls callAccountMethod of a service.
AccountMethodCall(service, network, accountIndex, methodName) ==
  /\ acall.pc # "remote"
  /\ acall.n < MaxAccountCalls
  /\ LET error == callAccountMethodThrows(service, store, network, accountIndex, methodName) IN
     /\ acall' = [pc |-> IF error = "none" THEN "remote" ELSE "thrown",
                  service |-> service, network |-> network, accountIndex |-> accountIndex,
                  methodName |-> methodName, error |-> error, n |-> acall.n + 1]
     /\ sent' = IF error = "none"
                THEN sent \cup {[methodName |-> methodName, network |-> network,
                                 accountIndex |-> accountIndex]}
                ELSE sent
  /\ UNCHANGED <<gcall, reloaded, props, configError, ledger>>
  /\ UNCHANGED <<cacheVars, workletVars, machineVars, hookVars, balanceVars>>

\* hrpc.callMethod resolves and callAccountMethod returns the parsed result.
AccountMethodResolved ==
  /\ acall.pc = "remote"
  /\ acall' = [acall EXCEPT !.pc = "returned"]
  /\ UNCHANGED <<sent, gcall, reloaded, props, configError, ledger>>
  /\ UNCHANGED <<cacheVars, workletVars, machineVars, hookVars, balanceVars>>

\* hrpc.callMethod rejects and callAccountMethod throws its error.
AccountMethodRejected ==
  /\ acall.pc = "remote"
  /\ acall' = [acall EXCEPT !.pc = "thrown", !.error = ErrRemote]
  /\ UNCHANGED <<sent, gcall, reloaded, props, configError, ledger>>
  /\ UNCHANGED <<cacheVars, workletVars, machineVars, hookVars, balanceVars>>

\* WorkletService.reset while the account service is in use.
AccountReset ==
  /\ store.isWorkletStarted
  /\ store' = FreshStore
  /\ walletStore' = EmptyWalletStore
  /\ UNCHANGED <<tokenConfigs, definition, runs, fetches, apiCalls, sync>>
  /\ UNCHANGED <<cacheVars, starts, machineVars, hookVars, serviceVars>>

\* The account service over a session in any of its states: not started,
\* started, or initialized.
AccountInit ==
  /\ cache = [k \in CacheKeys |-> AbsentEntry]
  /\ storage = [i \in Idents |-> IF i = HookIdentifier THEN StoredWallet ELSE NoCreds]
  /\ genCount = 0
  /\ supplied = [k \in CacheKeys |-> NoCreds]
  /\ written = {}
  /\ starts = [s \in StartIds |-> FreeStart]
  /\ tasks = [t \in TaskIds |-> FreeTask]
  /\ store \in {FreshStore, StartedStore, InitializedStore}
  /\ MachineUnmounted
  /\ HookUnmounted
  /\ BalanceIdle
  /\ ServiceIdle

AccountNext ==
  \/ \E service \in Services, network \in NetworkNames, accountIndex \in AccountIndexes,
        methodName \in MethodNames :
       AccountMethodCall(service, network, accountIndex, methodName)
  \/ AccountMethodResolved
  \/ AccountMethodRejected
  \/ AccountReset

AccountSpec == AccountInit /\ [][AccountNext]_vars

\* --------------------------------------------------------------- StoreSpec
\* The wallet store is created with zustand's persist middleware
\* (store/walletStore.ts): every setState writes partialize(state) to the
\* storage adapter, so what storage holds is always partialize of the store.

\* A bug that persists the balance loading flags.
partializeWithLoading(state) ==
  [addresses |-> state.addresses, balances |-> state.balances,
   balanceLoading |-> state.balanceLoading, lastBalanceUpdate |-> state.lastBalanceUpdate]

\* partialize of the persist options: what is written to storage.
partialize(state) ==
  [addresses |-> state.addresses, balances |-> state.balances,
   balanceLoading |-> {}, lastBalanceUpdate |-> state.lastBalanceUpdate]

\* The default merge of persist: {...currentState, ...persistedState}.
merge(persistedState, currentState) ==
  [k \in DOMAIN currentState |->
     IF k \in DOMAIN persistedState THEN persistedState[k] ELSE currentState[k]]

\* The callback returned by onRehydrateStorage.
onRehydrateStorage(state) == [state EXCEPT !.walletLoading = {}, !.balanceLoading = {}]

\* The store of a new process: created with initialState, then rehydrated
\* from what the last process persisted.
rehydrate(persistedState) == onRehydrateStorage(merge(persistedState, EmptyWalletStore))

\* walletLoading[`${network}-${accountIndex}`] = loading: the entry stays in
\* the map with the value false when the call is over.
setWalletLoading(ws, network, accountIndex, loading) ==
  [ws EXCEPT !.walletLoading =
     {e \in @ : <<e[1], e[2]>> # <<network, accountIndex>>} \cup {<<network, accountIndex, loading>>}]

\* getAddress of a service up to its await: "cached", the error it throws,
\* or "none" when it goes on to hrpc.callMethod.
getAddressThrows(service, st, ws, network, accountIndex) ==
  IF service = "AddressService" /\ ~isValidNetworkName(network) THEN ErrNetworkName
  ELSE IF service = "AddressService" /\ ~isValidAccountIndex(accountIndex) THEN ErrAccountIndex
  ELSE IF <<network, accountIndex>> \in ws.addresses THEN "cached"
  ELSE IF ~st.isInitialized \/ ~st.hrpc THEN ErrWdkNotInitialized
  ELSE "none"

\* The application calls getAddress of a service.
GetAddressCall(service, network, accountIndex) ==
  /\ gcall.pc # "remote"
  /\ gcall.n < MaxAddressCalls
  /\ LET error == getAddressThrows(service, store, walletStore, network, accountIndex) IN
     /\ gcall' = [pc |-> IF error = "none" THEN "remote"
                         ELSE IF error = "cached" THEN "returned" ELSE "thrown",
                  service |-> service, network |-> network, accountIndex |-> accountIndex,
                  error |-> IF error = "cached" THEN "none" ELSE error, n |-> gcall.n + 1]
     /\ walletStore' = IF error = "none"
                       THEN setWalletLoading(walletStore, network, accountIndex, TRUE)
                       ELSE walletStore
  /\ UNCHANGED <<acall, sent, reloaded, props, configError, ledger>>
  /\ UNCHANGED <<tokenConfigs, definition, runs, fetches, apiCalls, sync>>
  /\ UNCHANGED <<cacheVars, workletVars, machineVars, hookVars>>

\* hrpc.callMethod resolves with an address: getAddress caches it, clears
\* the loading flag and returns it.
GetAddressResolved ==
  /\ gcall.pc = "remote"
  /\ gcall' = [gcall EXCEPT !.pc = "returned"]
  /\ walletStore' =
       setWalletLoading([walletStore EXCEPT !.addresses = @ \cup {<<gcall.network, gcall.accountIndex>>}],
                        gcall.network, gcall.accountIndex, FALSE)
  /\ UNCHANGED <<acall, sent, reloaded, props, configError, ledger>>
  /\ UNCHANGED <<tokenConfigs, definition, runs, fetches, apiCalls, sync>>
  /\ UNCHANGED <<cacheVars, workletVars, machineVars, hookVars>>

\* hrpc.callMethod rejects, or resolves without a usable address: the catch
\* clears the loading flag and getAddress throws.
GetAddressRejected ==
  /\ gcall.pc = "remote"
  /\ gcall' = [gcall EXCEPT !.pc = "thrown", !.error = ErrRemote]
  /\ walletStore' = setWalletLoading(walletStore, gcall.network, gcall.accountIndex, FALSE)
  /\ UNCHANGED <<acall, sent, reloaded, props, configError, ledger>>
  /\ UNCHANGED <<tokenConfigs, definition, runs, fetches, apiCalls, sync>>
  /\ UNCHANGED <<cacheVars, workletVars, machineVars, hookVars>>

\* The application is restarted with no hook mounted: the calls in flight
\* are gone, the worklet store starts afresh and the wallet store is
\* rehydrated from storage.
Reload ==
  /\ reloaded.n < MaxReloads
  /\ reloaded' = [n |-> reloaded.n + 1, balanceLoading |-> walletStore.balanceLoading,
                  walletLoading |-> walletStore.walletLoading]
  /\ walletStore' = rehydrate(partialize(walletStore))
  /\ store' = FreshStore
  /\ runs' = [r \in RunIds |-> FreeRun]
  /\ fetches' = [r \in RunIds |-> NoFetches]
  /\ gcall' = [gcall EXCEPT !.pc = "free"]
  /\ acall' = [acall EXCEPT !.pc = "free"]
  /\ UNCHANGED <<sent, tokenConfigs, definition, apiCalls, sync, props, configError, ledger>>
  /\ UNCHANGED <<cacheVars, starts, machineVars, hookVars>>

\* An initialized session with the accounts' "eth" addresses cached and
\* nothing fetched.
StoreInit ==
  /\ cache = [k \in CacheKeys |-> AbsentEntry]
  /\ storage = [i \in Idents |-> IF i = HookIdentifier THEN StoredWallet ELSE NoCreds]
  /\ genCount = 0
  /\ supplied = [k \in CacheKeys |-> NoCreds]
  /\ written = {}
  /\ starts = [s \in StartIds |-> FreeStart]
  /\ tasks = [t \in TaskIds |-> FreeTask]
  /\ store = InitializedStore
  /\ MachineUnmounted
  /\ HookUnmounted
  /\ BalanceIdle
  /\ ServiceIdle

StoreNext ==
  \/ \E service \in Services, network \in NetworkNames, accountIndex \in AccountIndexes :
       GetAddressCall(service, network, accountIndex)
  \/ GetAddressResolved
  \/ GetAddressRejected
  \/ \E r \in RunIds, key \in FetchKeys : FetchBalanceCall(r, key)
  \/ \E r \in RunIds, key \in FetchKeys, v \in RemoteResults : BalanceResolved(r, key, v)
  \/ \E r \in RunIds, key \in FetchKeys : BalanceRejected(r, key)
  \/ Reload

StoreSpec == StoreInit /\ [][StoreNext]_vars

\* --------------------------------------------------------------- ResetSpec
\* Address and balance fetches over an initialized session, with reset() at
\* any moment.  The session is not initialized again, so a call that is
\* pending after a reset was started before it.
ResetNext ==
  \/ \E service \in Services, network \in NetworkNames, accountIndex \in AccountIndexes :
       GetAddressCall(service, network, accountIndex)
  \/ GetAddressResolved
  \/ GetAddressRejected
  \/ \E r \in RunIds, key \in FetchKeys : FetchBalanceCall(r, key)
  \/ \E r \in RunIds, key \in FetchKeys, v \in RemoteResults : BalanceResolved(r, key, v)
  \/ \E r \in RunIds, key \in FetchKeys : BalanceRejected(r, key)
  \/ SessionReset

ResetSpec == StoreInit /\ [][ResetNext]_vars

\* ----------------------------------------------------------- PrecisionSpec
\* Balance fetches over an initialized session whose gateway answers each
\* balance call with the amount it holds for the key, as the JSON text of the
\* account method's result.
PrecisionInit ==
  /\ cache = [k \in CacheKeys |-> AbsentEntry]
  /\ storage = [i \in Idents |-> IF i = HookIdentifier THEN StoredWallet ELSE NoCreds]
  /\ genCount = 0
  /\ supplied = [k \in CacheKeys |-> NoCreds]
  /\ written = {}
  /\ starts = [s \in StartIds |-> FreeStart]
  /\ tasks = [t \in TaskIds |-> FreeTask]
  /\ store = InitializedStore
  /\ MachineUnmounted
  /\ HookUnmounted
  /\ BalanceIdle
  /\ acall = NoAccountCall
  /\ sent = {}
  /\ gcall = NoAddressCall
  /\ reloaded = [n |-> 0, balanceLoading |-> {}, walletLoading |-> {}]
  /\ props = ValidProps
  /\ configError = NoConfigError
  /\ \E native \in GatewayValues, token \in GatewayValues :
       ledger = [k \in StoreKeys |-> IF k[3] = tokenKey(Native) THEN native ELSE token]

PrecisionNext ==
  \/ \E r \in RunIds, key \in FetchKeys : FetchBalanceCall(r, key)
  \/ \E r \in RunIds, key \in FetchKeys :
       BalanceResolved(r, key,
         callAccountMethodResult(hrpcResult(ledger[loadingKey(key[1], key[2], key[3])])))
  \/ \E r \in RunIds, key \in FetchKeys : BalanceRejected(r, key)

PrecisionSpec == PrecisionInit /\ [][PrecisionNext]_vars

\* -------------------------------------------------------------- ConfigSpec
\* WdkAppProvider (ref hook generation) rendered with any props.  The passive
\* effects of one commit of the provider run in declaration order: the props
\* validation effect first, the effects of useWdkInitialization after it.  A
\* validation error thrown by the first ends the commit's effects and leaves
\* the provider to the error boundary; with valid props the commit is HRender.
ProviderCommit ==
  /\ configError = NoConfigError
  /\ LET error == validateProps(props)
     IN IF error # NoConfigError
          THEN /\ ~hview.mounted
               /\ configError' = error
               /\ UNCHANGED <<cacheVars, workletVars, machineVars, hookVars, balanceVars,
                              acall, sent, gcall, reloaded, props, ledger>>
          ELSE HRender

ConfigInit ==
  /\ cache = [k \in CacheKeys |-> AbsentEntry]
  /\ \E held \in {NoCreds, StoredWallet} :
       storage = [i \in Idents |-> IF i = HookIdentifier THEN held ELSE NoCreds]
  /\ tasks = [t \in TaskIds |-> FreeTask]
  /\ genCount = 0
  /\ supplied = [k \in CacheKeys |-> NoCreds]
  /\ written = {}
  /\ store = FreshStore
  /\ starts = [s \in StartIds |-> FreeStart]
  /\ MachineUnmounted
  /\ BalanceIdle
  /\ \E p \in PropsChoices : ServiceIdleWith(p)
  /\ HookUnmounted

ConfigNext ==
  \/ ProviderCommit
  \/ \E o \in OpIds : HStartSettled(o)
  \/ \E o \in OpIds, exists \in BOOLEAN : HCheckResolved(o, exists)
  \/ \E o \in OpIds : HCheckRejected(o)
  \/ \E o \in OpIds : HInitSettled(o)
  \/ HRetry
  \/ \E s \in StartIds : StartImportResolved(s)
  \/ \E s \in StartIds : StartImportFailed(s)
  \/ \E s \in StartIds : StartRpcResolved(s)
  \/ \E s \in StartIds : StartRpcRejected(s)
  \/ \E t \in TaskIds, authenticated \in BOOLEAN : CreateAuthReturned(t, authenticated)
  \/ \E t \in TaskIds : CreateGenReturned(t)
  \/ \E t \in TaskIds : CreateGenRejected(t)
  \/ \E t \in TaskIds : CreateWriteDone(t)
  \/ \E t \in TaskIds : CreateWriteRejected(t)
  \/ \E t \in TaskIds : LoadSeedReturned(t)
  \/ \E t \in TaskIds : LoadAllReturned(t)
  \/ \E t \in TaskIds : LoadAllRejected(t)
  \/ \E t \in TaskIds : InitWalletCredentials(t)
  \/ \E t \in TaskIds : InitWdkResolved(t)
  \/ \E t \in TaskIds : InitWdkRejected(t)

ConfigSpec == ConfigInit /\ [][ConfigNext]_vars

\* ---------------------------------------------------------------- claims
LoadTasks == {t \in TaskIds : tasks[t].op = "load"}

\* C6: a loadExistingWallet call that finds both encryptionKey and
\* encryptedSeed cached for its identifier returns at once with exactly the
\* cached values and makes no secure storage call at all (no getAllEncrypted,
\* no getEncryptedSeed).
C6_NoAuthOnCacheHit ==
  [][\A t \in TaskIds :
       (tasks[t].pc = "free" /\ tasks'[t].op = "load") =>
         LET cached == cacheGet(cache, tasks'[t].id) IN
         (cached.encryptionKey # NoVal /\ cached.encryptedSeed # NoVal) =>
           /\ tasks'[t].pc = "done" /\ tasks'[t].res = "ok"
           /\ tasks'[t].key = cached.encryptionKey
           /\ tasks'[t].seed = cached.encryptedSeed
           /\ tasks'[t].log = <<>>]_vars

\* A load served from a cache that another call (a cold load) filled.
C6_Witness ==
  \E t \in LoadTasks : /\ tasks[t].hit /\ tasks[t].pc = "done"
                        /\ tasks[t].key = Cred(0, "encryptionKey")
                        /\ tasks[t].seed = Cred(0, "encryptedSeed")

\* C7: between two clears a cache field that has been supplied to
\* cacheCredentials stays set and holds the last value supplied for it; an
\* update that omits the field leaves it as it was.
C7_CacheMerge ==
  \A k \in CacheKeys : \A f \in Fields :
    supplied[k][f] # NoVal => cache[k].present /\ cache[k][f] = supplied[k][f]

\* {encryptionKey: k} cached by getEncryptionKey, then {encryptedSeed: s}
\* cached by getEncryptedSeed: the entry holds both.
C7_Witness ==
  /\ \E t \in TaskIds : tasks[t].op = "encryptionKey" /\ tasks[t].id = "a"
                         /\ tasks[t].pc = "done" /\ ~tasks[t].hit /\ tasks[t].key # NoVal
  /\ \E t \in TaskIds : tasks[t].op = "encryptedSeed" /\ tasks[t].id = "a"
                         /\ tasks[t].pc = "done" /\ ~tasks[t].hit /\ tasks[t].seed # NoVal
  /\ cache["a"].encryptionKey # NoVal /\ cache["a"].encryptedSeed # NoVal
  /\ cache["a"].encryptedEntropy = NoVal

\* C8: while the secure storage entry of an identifier is not rewritten, every
\* completed loadExistingWallet for it whose authentication did not fail
\* returns what secure storage holds, (k, s), whether it was served from the
\* cache or from secure storage, and fails only if k or s is missing there.
C8_ColdWarmEquivalent ==
  \A t \in LoadTasks :
    (tasks[t].pc = "done" /\ tasks[t].id \notin written /\ tasks[t].res # ErrAuthentication) =>
      LET held == storage[tasks[t].id] IN
      IF held.encryptionKey # NoVal /\ held.encryptedSeed # NoVal
      THEN /\ tasks[t].res = "ok"
           /\ tasks[t].key = held.encryptionKey
           /\ tasks[t].seed = held.encryptedSeed
      ELSE tasks[t].res # "ok"

\* A cold load (empty cache, both storage reads) and a warm load (no storage
\* call) of the same identifier, both completed.
C8_Witness ==
  \E t, u \in LoadTasks :
    /\ tasks[t].id = tasks[u].id /\ tasks[t].id \notin written
    /\ tasks[t].pc = "done" /\ ~tasks[t].hit /\ tasks[t].res = "ok"
    /\ tasks[t].ckey = NoVal /\ Has(tasks[t].log, "getAllEncrypted")
    /\ tasks[u].pc = "done" /\ tasks[u].hit /\ tasks[u].res = "ok"

\* C9 as stated: once getEncryptedSeed has returned null, getAllEncrypted is
\* never called and the call fails with 'Encrypted seed not found'.
C9_Original ==
  \A t \in LoadTasks :
    tasks[t].seedNull =>
      /\ ~Has(tasks[t].log, "getAllEncrypted")
      /\ tasks[t].pc = "done" => tasks[t].res = ErrSeedNotFound

\* C9 as amended: getEncryptedSeed is requested before getAllEncrypted;
\* getAllEncrypted is called exactly when the encryption key is not cached,
\* also after getEncryptedSeed returned null; and after a null seed the call
\* never succeeds: it fails with 'Encrypted seed not found' when an encryption
\* key was available (cached, or returned by getAllEncrypted), with
\* 'Encryption key not found' when getAllEncrypted returned none, and with the
\* authentication error when getAllEncrypted rejected.
C9_SeedBeforeKey ==
  \A t \in LoadTasks :
    /\ Before(tasks[t].log, "getEncryptedSeed", "getAllEncrypted")
    /\ (~tasks[t].hit /\ tasks[t].pc # "getEncryptedSeed") =>
         (Has(tasks[t].log, "getAllEncrypted") <=> tasks[t].ckey = NoVal)
    /\ (tasks[t].seedNull /\ tasks[t].pc = "done") =>
         tasks[t].res = IF tasks[t].res = ErrAuthentication THEN ErrAuthentication
                        ELSE IF tasks[t].ckey = NoVal /\ tasks[t].keyNull THEN ErrKeyNotFound
                        ELSE ErrSeedNotFound

\* getEncryptedSeed returned null, the authenticated path was still taken and
\* returned a key, and the call failed with 'Encrypted seed not found'.
C9_Witness ==
  \E t \in LoadTasks :
    /\ tasks[t].seedNull /\ Has(tasks[t].log, "getAllEncrypted") /\ ~tasks[t].keyNull
    /\ tasks[t].pc = "done" /\ tasks[t].res = ErrSeedNotFound

\* C10 as stated: when secure storage yields no encryption key the call fails
\* with 'Encryption key not found' and getEncryptedSeed was never called.
C10_KeyMissingNoSeedRead ==
  \A t \in LoadTasks :
    tasks[t].keyNull =>
      /\ tasks[t].pc = "done" /\ tasks[t].res = ErrKeyNotFound
      /\ ~Has(tasks[t].log, "getEncryptedSeed")

\* C1: whatever the interleaving of startWorklet invocations (direct ones,
\* createNewWallet, the initializeWDK helper), at most one start is in flight
\* at a time, so at most one hrpc.workletStart is pending; no start is in
\* flight once the worklet is started; and an invocation made while a start is
\* in flight returns without issuing a session-start call of its own.
C1_IdempotentStartup ==
  /\ Cardinality(InFlight(starts)) <= 1
  /\ store.isWorkletStarted => InFlight(starts) = {}
  /\ \A s \in StartIds : starts[s].during => starts[s].pc = "done" /\ ~starts[s].rpc

\* Two invocations, the second made while the first was in flight; the
\* worklet is started and exactly one hrpc.workletStart was issued.
C1_Witness ==
  /\ store.isWorkletStarted
  /\ \E s, u \in StartIds :
       /\ s # u /\ starts[s].rpc /\ starts[s].res = "ok"
       /\ starts[u].during /\ starts[u].pc = "done"
  /\ Cardinality({s \in StartIds : starts[s].rpc}) = 1

\* Nothing is pending: the last render is current, no async function of the
\* hook, no start and no wallet setup call is in flight.
MQuiescent ==
  /\ ~stateChanged /\ mview = MSnapshot
  /\ \A o \in OpIds : mops[o].kind = "none"
  /\ InFlight(starts) = {}
  /\ \A t \in TaskIds : tasks[t].pc \in {"free", "done"}

\* The calls of an external function made so far, over all wallet setup calls.
Calls(name) ==
  Cardinality(UNION {{<<t, i>> : i \in {j \in 1..Len(tasks[t].log) : tasks[t].log[j] = name}} :
                       t \in TaskIds})

\* The scenario of C2: the hook is mounted and enabled, secure storage held no
\* wallet at start, every external call has succeeded and retry() was not called.
NewWalletScenario ==
  /\ mview.mounted
  /\ \A f \in Fields : \/ storage[HookIdentifier][f] = NoVal
                       \/ GenerationOf(storage[HookIdentifier][f]) > 0
  /\ mhist.retries = 0 /\ mhist.checksRejected = 0
  /\ \A s \in StartIds : starts[s].res # "failed"
  /\ \A t \in TaskIds : tasks[t].res \in {"none", "ok"}

\* C2 as stated: in the new-wallet scenario the flow comes to rest only in
\* ready, having called authenticate(), generateEntropyAndEncrypt and
\* initializeWDK exactly once each.
C2_ReachesReady ==
  (NewWalletScenario /\ MQuiescent) =>
    /\ initState.type = "ready"
    /\ Calls("authenticate") = 1
    /\ Calls("generateEntropyAndEncrypt") = 1
    /\ Calls("initializeWDK") = 1

\* C4: when hasWallet rejects while the machine is in checking_wallet, the
\* machine goes to initializing_wallet with walletExists = false; and no
\* rejection of hasWallet ever takes the machine into error.
C4_FailOpenWalletCheck ==
  [][mhist'.checksRejected > mhist.checksRejected =>
       /\ initState.type = "checking_wallet" =>
            initState' = [St("initializing_wallet") EXCEPT !.walletExists = FALSE]
       /\ initState'.type = "error" => initState.type = "error"]_vars

\* hasWallet has rejected and the machine, then in checking_wallet, is now in
\* initializing_wallet(walletExists = false) and has called createNewWallet.
C4_Witness ==
  /\ mhist.checksRejected > 0
  /\ initState.type = "initializing_wallet" /\ ~initState.walletExists
  /\ \E o \in OpIds : /\ mops[o].kind = "init"
                      /\ tasks[mops[o].sub].op = "create"

C5_ReadyOnlyWhenInitialized ==
  (hview.mounted /\ enabled /\ ProviderIsReady) => hview.isInitialized

\* C11: when authenticate() returns false, createNewWallet fails with the
\* 'Biometric authentication required' error having made no other call (no
\* generation, no secure storage write), and the step leaves secure storage
\* and the credential cache as they were.
C11_AuthGateOnCreation ==
  [][\A t \in TaskIds :
       (tasks'[t].op = "create" /\ tasks'[t].denied) =>
          /\ tasks'[t].pc = "done" /\ tasks'[t].res = ErrBiometric
          /\ tasks'[t].log = <<"authenticate">>
          /\ tasks'[t].key = NoVal /\ tasks'[t].seed = NoVal /\ tasks'[t].ent = NoVal
          /\ ~tasks[t].denied =>
               cache' = cache /\ storage' = storage /\ genCount' = genCount]_vars

\* A creation was refused while the cache held an entry.
C11_Witness ==
  \E t \in TaskIds :
    /\ tasks[t].op = "create" /\ tasks[t].denied /\ tasks[t].res = ErrBiometric
    /\ cache[getCacheKey(tasks[t].id)].present

\* What createNewWallet generated, as the cache holds it.
Generated(task) ==
  [encryptionKey |-> task.key, encryptedSeed |-> task.seed,
   encryptedEntropy |-> task.ent, present |-> TRUE]

\* C12: each step of a createNewWallet past the generation either fails on a
\* rejected write and leaves the cache alone, or stores the generated value of
\* its turn (key, then seed, then entropy) under the identifier; the cache is
\* left alone by the first two writes and receives the three generated values
\* with the third, when the call returns the generated key and seed.
C12_CreationOrdering ==
  [][\A t \in TaskIds :
       LET old == tasks[t]  new == tasks'[t] IN
       (/\ old.op = "create" /\ old.key # NoVal
        /\ old.pc \in {"setEncryptionKey", "setEncryptedSeed", "setEncryptedEntropy"}
        /\ new.pc # old.pc) =>
         IF new.res # "none" /\ new.res # "ok"
         THEN cache' = cache /\ storage' = storage
         ELSE CASE old.pc = "setEncryptionKey" ->
                     /\ storage'[old.id].encryptionKey = old.key
                     /\ new.pc = "setEncryptedSeed" /\ cache' = cache
                [] old.pc = "setEncryptedSeed" ->
                     /\ storage'[old.id].encryptedSeed = old.seed
                     /\ new.pc = "setEncryptedEntropy" /\ cache' = cache
                [] old.pc = "setEncryptedEntropy" ->
                     /\ storage'[old.id].encryptedEntropy = old.ent
                     /\ new.pc = "done" /\ new.res = "ok"
                     /\ new.key = old.key /\ new.seed = old.seed
                     /\ cache'[getCacheKey(old.id)] = Generated(old)
                     /\ new.log = <<"authenticate", "generateEntropyAndEncrypt",
                                    "setEncryptionKey", "setEncryptedSeed",
                                    "setEncryptedEntropy">>]_vars

\* A creation has returned; secure storage and the cache hold what it generated.
C12_Witness ==
  \E t \in TaskIds :
    /\ tasks[t].op = "create" /\ tasks[t].pc = "done" /\ tasks[t].res = "ok"
    /\ GenerationOf(tasks[t].key) > 0
    /\ cache[getCacheKey(tasks[t].id)] = Generated(tasks[t])
    /\ \A f \in Fields : storage[tasks[t].id][f] = Generated(tasks[t])[f]

\* The ref hook at rest: the last render is current and nothing is pending.
HQuiescent ==
  /\ hview = HSnapshot
  /\ \A o \in OpIds : hops[o].kind = "none"
  /\ InFlight(starts) = {}
  /\ \A t \in TaskIds : tasks[t].pc \in {"free", "done"}

\* C13: once retry() has been called the ref hook does not come to rest with
\* no error exposed and the wallet not initialized: the failed phase is
\* attempted again and ends in readiness or in a new error.
C13_RetryRecovers ==
  (hhist.retries > 0 /\ HQuiescent) =>
     (HookError(hview) # "none" \/ hview.isInitialized)

C15_FetchBalanceBookkeeping ==
  [][\A r \in RunIds, k \in FetchKeys :
       /\ (fetches[r][k].pc \in {"none", "done"} /\ fetches'[r][k].pc \in {"remote", "throwing"}) =>
            /\ store.isInitialized
            /\ loadingKey(k[1], k[2], k[3]) \in walletStore'.balanceLoading
       /\ (fetches[r][k].pc \in {"remote", "throwing"} /\ fetches'[r][k].pc # fetches[r][k].pc) =>
            /\ fetches'[r][k].pc = "done"
            /\ loadingKey(k[1], k[2], k[3]) \notin walletStore'.balanceLoading
            /\ LET res == fetches'[r][k].res IN
               /\ <<res.network, res.accountIndex, res.tokenAddress>> = k
               /\ \/ res.success /\ res.balance.type = "string" /\ res.error = "none"
                  \/ ~res.success /\ res.balance = NoBalance
                       /\ res.error \in {ErrRemote, ErrWdkNotInitialized}]_vars

\* A fetchBalance call whose account method call failed has returned the
\* failure, with its loading flag cleared, on an initialized session.
C15_Witness ==
  \E r \in RunIds, k \in FetchKeys :
    /\ runs[r].kind = "fetchBalance" /\ runs[r].pc = "done"
    /\ fetches[r][k].pc = "done"
    /\ runs[r].results = <<FetchFailed(k, ErrRemote)>>
    /\ loadingKey(k[1], k[2], k[3]) \notin walletStore.balanceLoading
    /\ store.isInitialized

\* The (network, token) pairs of the token configuration: per network its
\* native token and each additional token.
ConfiguredPairs ==
  UNION {{<<tokenConfigs[i].network, t>> :
            t \in {tokenConfigs[i].native}
                    \cup {tokenConfigs[i].tokens[j] : j \in 1..Len(tokenConfigs[i].tokens)}} :
         i \in 1..Len(tokenConfigs)}

\* C16: fetchAllBalancesForWallet(accountIndex) on an initialized session
\* starts, in the call itself and so without waiting for any of them, one
\* fetchBalance for every configured (network, token) pair and for nothing
\* else; when it returns, it returns exactly one result per pair; and a fetch
\* that fails leaves every other fetch of the call as it was.
C16_WalletFanOut ==
  [][\A r \in RunIds :
       LET a == runs'[r].args[2] IN
       /\ (/\ apiCalls' = apiCalls + 1 /\ runs'[r] # runs[r]
           /\ runs'[r].kind = "fetchAllBalancesForWallet" /\ store.isInitialized) =>
            /\ runs'[r].pc = "awaiting"
            /\ \A k \in FetchKeys :
                 fetches'[r][k].pc \in {"remote", "throwing"}
                   <=> (k[2] = a /\ <<k[1], k[3]>> \in ConfiguredPairs)
       /\ (/\ runs[r].kind = "fetchAllBalancesForWallet" /\ runs[r].pc = "awaiting"
           /\ runs'[r].pc = "done") =>
            /\ Len(runs'[r].results) = Cardinality(ConfiguredPairs)
            /\ \A p \in ConfiguredPairs :
                 Cardinality({i \in 1..Len(runs'[r].results) :
                    /\ runs'[r].results[i].network = p[1]
                    /\ runs'[r].results[i].tokenAddress = p[2]
                    /\ runs'[r].results[i].accountIndex = a}) = 1
       /\ (runs[r].kind = "fetchAllBalancesForWallet" /\ runs[r].pc = "awaiting") =>
            \A k, other \in FetchKeys :
              (/\ k # other /\ fetches[r][k].pc = "remote"
               /\ fetches[r][other].pc = "remote" /\ fetches'[r][other].pc = "done"
               /\ ~fetches'[r][other].res.success) =>
                fetches'[r][k] = fetches[r][k]]_vars

\* A fetchAllBalancesForWallet call has returned with a failed result for its
\* first pair and a successful one for its second.
C16_Witness ==
  \E r \in RunIds :
    /\ runs[r].kind = "fetchAllBalancesForWallet" /\ runs[r].pc = "done"
    /\ Len(runs[r].results) = 2
    /\ ~runs[r].results[1].success /\ runs[r].results[1].error = ErrRemote
    /\ runs[r].results[2].success
    /\ runs[r].results[1].network # runs[r].results[2].network

\* C17: fetchAllBalances processes the known wallets one at a time in
\* ascending accountIndex: while an account method call of one of its fetches
\* is pending for a wallet, every fetch for every earlier wallet has completed.
C17_SequentialWallets ==
  \A r \in RunIds :
    runs[r].kind = "fetchAllBalances" =>
      \A k, earlier \in FetchKeys :
        (/\ fetches[r][k].pc = "remote"
         /\ earlier[2] < k[2] /\ <<earlier[1], earlier[3]>> \in ConfiguredPairs) =>
          fetches[r][earlier].pc = "done"

\* C18: while the session is not initialized no account method call for a
\* balance is issued; a method of the balance fetcher called then returns at
\* once, fetchBalance with the single failed result "Wallet not initialized"
\* and every batch method with an empty list, and leaves the loading flags
\* and the stored balances as they were.
C18_NotInitializedGuard ==
  [][/\ \A r \in RunIds, k \in FetchKeys :
          (fetches[r][k].pc # "remote" /\ fetches'[r][k].pc = "remote") => store.isInitialized
     /\ \A r \in RunIds :
          (apiCalls' = apiCalls + 1 /\ runs'[r] # runs[r] /\ ~store.isInitialized) =>
            /\ runs'[r].pc = "done"
            /\ runs'[r].results =
                 IF runs'[r].kind = "fetchBalance"
                 THEN <<[success |-> FALSE, network |-> runs'[r].args[1],
                         accountIndex |-> runs'[r].args[2], tokenAddress |-> runs'[r].args[3],
                         balance |-> NoBalance, error |-> "Wallet not initialized"]>>
                 ELSE <<>>
            /\ \A k \in FetchKeys : fetches'[r][k].pc = "none"
            /\ walletStore' = walletStore]_vars

\* A fetchBalance call made while the session is not initialized has returned
\* its failed result, and nothing is loading.
C18_Witness ==
  \E r \in RunIds :
    /\ ~store.isInitialized
    /\ runs[r].kind = "fetchBalance" /\ runs[r].pc = "done"
    /\ runs[r].results = <<FetchFailed(runs[r].args, ErrWalletNotInitialized)>>
    /\ walletStore.balanceLoading = {}
    /\ walletStore.addresses = {"eth"} \X Accounts

\* The fetchAllBalances runs started by the provider that have not returned.
ProviderRuns == {r \in RunIds : runs[r].owner \in {"auto", "timer", "manual"} /\ runs[r].pc = "awaiting"}

\* C19: at most one fetchAllBalances run started by the provider (automatic,
\* timer-driven or by refreshBalances()) is in progress at any time, and
\* isFetchingBalances is true exactly while one is.
C19_SingleBalanceRun ==
  /\ Cardinality(ProviderRuns) <= 1
  /\ sync.isFetchingBalances <=> ProviderRuns # {}

\* C20: with balanceRefreshInterval = 0 the provider never sets its refresh
\* interval and no timer-driven balance fetch occurs; balance fetches start
\* only from the automatic fetch of a provider with autoFetchBalances that
\* has become ready and from calls of refreshBalances().
C20_NoTimerWithIntervalZero ==
  sync.balanceRefreshInterval = 0 =>
    /\ ~sync.interval
    /\ "timer" \notin sync.triggers
    /\ sync.triggers \subseteq {"auto", "manual"}
    /\ "auto" \in sync.triggers => sync.autoFetchBalances

\* With balanceRefreshInterval = 0 a provider that is ready has made its
\* automatic fetch and has run a refreshBalances() call.
C20_Witness ==
  /\ sync.balanceRefreshInterval = 0 /\ sync.view.isReady
  /\ sync.triggers = {"auto", "manual"}
  /\ sync.hasCompletedInitialBalanceFetch
  /\ \E r \in RunIds : runs[r].owner = "manual" /\ runs[r].pc = "done"

\* C20 as stated: with balanceRefreshInterval = 0 balance fetches start only
\* from calls of refreshBalances().
C20_Original ==
  sync.balanceRefreshInterval = 0 => sync.triggers \subseteq {"manual"}

\* C21: AddressService.callAccountMethod hands a request to hrpc.callMethod
\* only for a method name of the allow-list; a call with any other name throws
\* without a request, whatever the state of the session.
C21_MethodAllowList ==
  [][(acall'.n # acall.n /\ acall'.service = "AddressService") =>
       /\ \A q \in sent' \ sent : q.methodName \in ALLOWED_ACCOUNT_METHODS
       /\ acall'.methodName \notin ALLOWED_ACCOUNT_METHODS =>
            /\ acall'.pc = "thrown"
            /\ acall'.error \in {ErrMethodName, ErrNotAllowed}
            /\ sent' = sent
       /\ acall'.pc = "remote" => acall'.methodName \in ALLOWED_ACCOUNT_METHODS]_vars

\* On an initialized session AddressService.callAccountMethod has refused a
\* name that is not listed, after a request for a listed name went out.
C21_Witness ==
  /\ store.isInitialized /\ store.hrpc
  /\ acall.service = "AddressService" /\ acall.methodName = "dispose"
  /\ acall.pc = "thrown" /\ acall.error = ErrNotAllowed
  /\ sent = {[methodName |-> "getBalance", network |-> "eth", accountIndex |-> 0]}

\* C22: when the load of the existing wallet finds the encryption key or the
\* encrypted seed missing and the machine shows the error, the wallet's entry
\* in secure storage has been deleted, so a wallet check for the identifier
\* answers false.
C22_NotFoundCleanup ==
  (/\ initState.type = "error"
   /\ \E t \in TaskIds : /\ tasks[t].pc = "done"
                          /\ tasks[t].res \in {ErrKeyNotFound, ErrSeedNotFound})
    => /\ storage[HookIdentifier] = NoCreds
       /\ HasWalletResults(storage, HookIdentifier) = {FALSE}

\* C23: what is persisted of the wallet store holds addresses, balances and
\* lastBalanceUpdate and no loading flag, and after a restart balanceLoading
\* and walletLoading are empty whatever was being fetched, with the
\* addresses, balances and update marks as they were.
C23_LoadingNeverPersisted ==
  [][/\ partialize(walletStore').balanceLoading = {}
     /\ "walletLoading" \notin DOMAIN partialize(walletStore')
     /\ {"addresses", "balances", "lastBalanceUpdate"} \subseteq DOMAIN partialize(walletStore')
     /\ reloaded'.n # reloaded.n =>
          /\ walletStore'.balanceLoading = {}
          /\ walletStore'.walletLoading = {}
          /\ walletStore'.addresses = walletStore.addresses
          /\ walletStore'.balances = walletStore.balances
          /\ walletStore'.lastBalanceUpdate = walletStore.lastBalanceUpdate]_vars

\* The application was restarted while a balance fetch and a getAddress call
\* were in flight and a balance was stored; afterwards nothing is loading
\* and the balance is still there.
C23_Witness ==
  /\ reloaded.n = 1
  /\ reloaded.balanceLoading # {}
  /\ \E e \in reloaded.walletLoading : e[3]
  /\ walletStore.balanceLoading = {} /\ walletStore.walletLoading = {}
  /\ \E k \in StoreKeys : walletStore.balances[k] # NoBalance

\* C24: configuration errors.  Props that are invalid in one of the named ways
\* (an empty network or token map, a chainId that is not positive, token
\* decimals outside 0..18, a negative interval) make the provider's validation
\* effect throw a configuration error; with props the validators reject, no
\* session start, wallet check, wallet initialisation or service call is ever
\* issued and nothing is retried.  An interval of 0 or undefined and decimals of
\* 0 and 18 are accepted.
AllTokens(configs) ==
  UNION {{configs[i].native} \cup Range(configs[i].tokens) : i \in DOMAIN configs}

NamedInvalid(p) ==
  \/ Len(p.networkConfigs) = 0
  \/ Len(p.tokenConfigs) = 0
  \/ \E i \in DOMAIN p.networkConfigs : p.networkConfigs[i].chainId <= 0
  \/ \E t \in AllTokens(p.tokenConfigs) : t.decimals \notin 0..18
  \/ p.balanceRefreshInterval.given /\ p.balanceRefreshInterval.ms < 0

NothingIssued ==
  /\ store = FreshStore
  /\ \A s \in StartIds : starts[s] = FreeStart
  /\ \A t \in TaskIds : tasks[t] = FreeTask
  /\ \A o \in OpIds : hops[o] = FreeHookOp
  /\ sent = {}
  /\ hhist.retries = 0 /\ hhist.autoAttempts = 0 /\ hhist.retryAttempts = 0

C24_ConfigurationErrors ==
  /\ NamedInvalid(props) => validateProps(props) # NoConfigError
  /\ validateProps(props) # NoConfigError => NothingIssued /\ ~hview.mounted
  /\ configError # NoConfigError => configError = validateProps(props)
  /\ (~props.balanceRefreshInterval.given \/ props.balanceRefreshInterval.ms = 0)
       => validateBalanceRefreshInterval(withDefaultInterval(props.balanceRefreshInterval))
            = NoConfigError
  /\ (/\ Len(props.tokenConfigs) > 0
      /\ \A t \in AllTokens(props.tokenConfigs) :
           t.decimals \in {0, 18} /\ t.symbol # "" /\ t.name # "" /\ t.address # "")
       => validateTokenConfigs(props.tokenConfigs) = NoConfigError
  /\ (validateProps(props) = NoConfigError /\ hview.mounted) => configError = NoConfigError

C24_Witness ==
  /\ configError = ConfigError("Invalid token decimals: must be a number between 0 and 18", "eth")
  /\ props.networkConfigs = <<NetworkConfig("eth", 1, "ethereum")>>
  /\ props.balanceRefreshInterval = Interval(0)
  /\ \E t \in AllTokens(props.tokenConfigs) : t.decimals = 19
  /\ NothingIssued

\* C25: balance round-trip.  Every balance read back with getBalance after a
\* fetch is the decimal string of the amount the gateway holds for the key,
\* digit for digit and without an exponent; and getBalance(a, n, t) after
\* updateBalance(a, n, t, b) returns b, for every decimal string b.
BalanceStrings == {Str(d) : d \in {D0, D1000, D2p53, D30}}

C26_SessionStartTransitions ==
  /\ \A o \in OpIds :
       (/\ mops[o].kind = "start" /\ initState.type = "starting_worklet"
        /\ starts[mops[o].sub].pc = "done" /\ starts[mops[o].sub].res # "failed")
         ~> (initState.type = "checking_wallet")
  /\ \A o \in OpIds :
       (/\ mops[o].kind = "start" /\ initState.type = "starting_worklet"
        /\ starts[mops[o].sub].pc = "done" /\ starts[mops[o].sub].res = "failed")
         ~> (initState.type = "error" /\ ~initState.isAuthError)

\* C27 as stated: at most one call of initializeWallet made by the hook is in
\* flight at any time.
InitializeWalletInFlight ==
  {o \in OpIds : hops[o].kind \in {"init", "retry"} /\ tasks[hops[o].sub].pc # "done"}

C27_SingleInitAttempt == Cardinality(InitializeWalletInFlight) <= 1

\* C28 as stated: the operation counter of wallet initialization never
\* decreases, and when an attempt settles whose operation id is not the
\* current one, the exposed error, the authentication-error flag and the
\* attempted guard stay as they were.
C28_StaleAttemptsDiscarded ==
  [][/\ refs'.opId >= refs.opId
     /\ \A o \in OpIds :
          (/\ hops[o].kind \in {"init", "retry"} /\ hops'[o].kind = "none"
           /\ hops[o].opId # refs.opId)
            => /\ hstate'.walletInitError = hstate.walletInitError
               /\ refs'.authError = refs.authError
               /\ refs'.attemptedWallet = refs.attemptedWallet]_vars

\* C29 as stated: a wallet check is in flight only after the session has
\* started, a wallet initialization only after a wallet check has completed,
\* and the machine is in ready only having passed, since it last was idle,
\* through starting_worklet, checking_wallet and initializing_wallet in that
\* order.
C29_PhaseOrdering ==
  /\ \A o \in OpIds : mops[o].kind = "check" => store.isWorkletStarted
  /\ \A o \in OpIds : mops[o].kind = "init" => mhist.checked
  /\ initState.type = "ready" => mhist.phase = 3

\* C30 as stated: a session-start, wallet-check or wallet-init call that was in
\* flight when the flow was disabled dispatches no state transition when it
\* settles, whatever happened in between.
C30_CancelledByDisabling ==
  [][\A o \in mhist.stale :
       (mops[o].kind # "none" /\ mops'[o].kind = "none") => initState' = initState]_vars

\* C31: the attempted guard of wallet initialization goes from true to false
\* only in retry(), which begins a new attempt, or when the attempt that
\* settles or the effect run that is cleaned up holds the current operation
\* id: a cancelled attempt never clears the guard of a newer one.
C31_GuardResetOnlyByCurrent ==
  [][(refs.attemptedWallet /\ ~refs'.attemptedWallet) =>
       \/ hhist'.retries # hhist.retries
       \/ \E o \in OpIds : /\ hops[o].kind \in {"init", "retry"} /\ hops'[o].kind = "none"
                           /\ hops[o].opId = refs.opId
       \/ hview' # hview /\ hcleanups.init = refs.opId]_vars

\* A failed attempt that had been superseded has settled while the guard was
\* set, and the guard of the newer attempt is still set.
C31_Witness == hhist.withheld /\ refs.attemptedWallet

\* C32 as stated: in every reachable state of the session store, whatever the
\* interleaving of startWorklet, initializeWDK and reset, isInitialized
\* implies that isWorkletStarted is true and the gateway handle is not null.
C32_SessionInvariant == store.isInitialized => store.isWorkletStarted /\ store.hrpc

\* C33: WorkletService.initializeWDK issues hrpc.initializeWDK only on a
\* started session that is not already initialized with the same pair; when it
\* throws for a session not started the store is unchanged; and isInitialized
\* becomes true only in the step in which a pending hrpc.initializeWDK
\* resolves.
C33_InitializePreconditions ==
  [][/\ \A t \in TaskIds :
          (tasks[t].pc # "initializeWDK" /\ tasks'[t].pc = "initializeWDK")
            => /\ store.isWorkletStarted /\ store.hrpc
               /\ ~(/\ store.isInitialized
                    /\ store.encryptionKey = tasks'[t].key
                    /\ store.encryptedSeed = tasks'[t].seed)
     /\ \A t \in TaskIds :
          (tasks[t].pc # "done" /\ tasks'[t].pc = "done" /\ tasks'[t].res = ErrMustStartInit)
            => store' = store
     /\ (~store.isInitialized /\ store'.isInitialized)
          => \E t \in TaskIds : /\ tasks[t].pc = "initializeWDK"
                                /\ tasks'[t].pc = "done" /\ tasks'[t].res = "ok"]_vars

\* One initializeWallet has initialized the session through
\* hrpc.initializeWDK and a later one, with the same credentials, has returned
\* without issuing the call.
C33_Witness ==
  /\ store.isInitialized
  /\ \E t, u \in TaskIds :
       /\ t # u
       /\ tasks[u].pc = "done" /\ tasks[u].res = "ok" /\ Has(tasks[u].log, "initializeWDK")
       /\ tasks[t].pc = "done" /\ tasks[t].res = "ok" /\ tasks[t].outer
       /\ ~Has(tasks[t].log, "initializeWDK")

\* C34: deleteWallet resets the session and wallet stores and clears the
\* identifier's cached credentials only when it resumes after the
\* secure-storage deletion has succeeded, and then does all of it; when the
\* deletion fails, session state, wallet data and cache stay as they were.
C34_WalletDeletion ==
  [][/\ \A t \in TaskIds :
          (tasks[t].op = "delete" /\ tasks[t].pc = "deleted" /\ tasks'[t].pc = "done")
            => /\ tasks'[t].res = "ok"
               /\ ~store'.isWorkletStarted /\ ~store'.isInitialized
               /\ walletStore'.addresses = {}
               /\ \A k \in StoreKeys : walletStore'.balances[k] = NoBalance
               /\ ~cache'[getCacheKey(tasks[t].id)].present
     /\ \A t \in TaskIds :
          (tasks[t].op = "delete" /\ tasks[t].pc = "deleteWallet" /\ tasks'[t].pc = "done")
            => /\ tasks'[t].res = ErrDelete
               /\ store' = store /\ walletStore' = walletStore /\ cache' = cache
     /\ (store' # store \/ walletStore' # walletStore)
          => \E t \in TaskIds : /\ tasks[t].op = "delete" /\ tasks[t].pc = "deleted"
                                /\ tasks'[t].pc = "done"
                                /\ Has(tasks[t].log, "deleteWallet")]_vars

\* A wallet whose credentials were cached has been deleted: secure storage,
\* the session, the wallet data and the cache entry are gone.
C34_Witness ==
  \E t, u \in TaskIds :
    /\ tasks[u].op = "load" /\ tasks[u].pc = "done" /\ tasks[u].res = "ok" /\ tasks[u].cleared
    /\ tasks[t].op = "delete" /\ tasks[t].pc = "done" /\ tasks[t].res = "ok"
    /\ tasks[t].id = tasks[u].id
    /\ storage[tasks[t].id] = NoCreds
    /\ store = FreshStore /\ walletStore = EmptyWalletStore
    /\ ~cache[getCacheKey(tasks[t].id)].present

\* C35 as stated: once reset() has emptied the wallet store, nothing that a
\* fetch started before the reset obtained is written into it: while the
\* session stays reset the store holds no address, no balance and no
\* last-update timestamp.
C35_NoStaleWritesAfterReset ==
  store = FreshStore =>
    /\ walletStore.addresses = {}
    /\ \A k \in StoreKeys : walletStore.balances[k] = NoBalance
    /\ walletStore.lastBalanceUpdate = {}

\* No call of the WalletSetupService API is in flight on the identifier.
Settling(id) ==
  \E t \in TaskIds : tasks[t].pc \notin {"free", "done"} /\ tasks[t].id = id

\* C36 as stated, read at the moments when no call on the identifier is in
\* flight: a cache entry holding both the encryption key and the encrypted
\* seed holds the values of secure storage, and the key and the seed in
\* secure storage are of one generation.
C36_CacheCoherence ==
  \A id \in Idents :
    ~Settling(id) =>
      /\ CacheHit(cacheGet(cache, id)) =>
           /\ cacheGet(cache, id).encryptionKey = storage[id].encryptionKey
           /\ cacheGet(cache, id).encryptedSeed = storage[id].encryptedSeed
      /\ (storage[id].encryptionKey # NoVal /\ storage[id].encryptedSeed # NoVal) =>
           GenerationOf(storage[id].encryptionKey) = GenerationOf(storage[id].encryptedSeed)

\* C37 as stated: once deleteWallet(identifier) has completed, the credential
\* cache holds no entry for the identifier, whatever call on the identifier
\* was in flight during the deletion.
C37_CacheEmptyAfterDeletion ==
  \A t \in TaskIds :
    (tasks[t].op = "delete" /\ tasks[t].pc = "done" /\ tasks[t].res = "ok")
      => ~cacheGet(cache, tasks[t].id).present

\* C38 as stated: whenever a balance fetch for a key is in flight, the
\* loading flag of the key is set.
C38_LoadingFlagTracksFetches ==
  \A r \in RunIds, key \in FetchKeys :
    fetches[r][key].pc \in {"remote", "throwing"} =>
      loadingKey(key[1], key[2], key[3]) \in walletStore.balanceLoading

\* ------------------------------------------------ C39: start completion
\* C39: whenever a startWorklet call returns without throwing, the session
\* is started (isWorkletStarted with a gateway handle), and a caller that
\* awaited startWorklet never fails with 'Worklet must be started' in the
\* generateEntropyAndEncrypt or initializeWDK that follows, also when another
\* start was in flight at the time of the call.
C39_StartCompletionImpliesStarted ==
  [][/\ \A s \in StartIds :
          (starts[s].pc # "done" /\ starts'[s].pc = "done" /\ starts'[s].res # "failed")
            => store'.isWorkletStarted /\ store'.hrpc
     /\ \A t \in TaskIds :
          tasks[t].pc \in {"startWorklet", "helperStartWorklet"}
            => tasks'[t].res \notin {ErrMustStartGen, ErrMustStartInit}]_vars

\* ---------------------------------------------------------------- GateSpec
\* The initialization flow of WdkAppProvider (provider/WdkAppProvider.tsx)
\* with its requireBiometric prop.

\* What a render of the provider reads for its initialization flow.
GSnapshot ==
  [hasWalletChecked |-> sync.gate.hasWalletChecked,
   walletKnown |-> sync.gate.walletKnown, walletExists |-> sync.gate.walletExists,
   biometricAuthenticated |-> sync.gate.biometricAuthenticated,
   initializationError |-> sync.gate.initializationError,
   walletInitError |-> sync.gate.walletInitError,
   isWorkletStarted |-> store.isWorkletStarted, isInitialized |-> store.isInitialized,
   isLoading |-> store.isLoading,
   isWalletInitializing |-> isWalletInitializing(store)]

\* requireBiometric && !biometricAuthenticated && isWorkletStarted && walletExists === true
needsBiometric(requireBiometric, v) ==
  requireBiometric /\ ~v.biometricAuthenticated /\ v.isWorkletStarted
    /\ v.walletKnown /\ v.walletExists

\* The guards of the three initialization effects.
GWorkletEffectRuns(snap, g) ==
  ~snap.isInitialized /\ ~snap.isLoading /\ ~g.attemptedWorklet

GCheckEffectRuns(snap) == ~(~snap.isWorkletStarted \/ snap.hasWalletChecked)

\* The first guard of the wallet-init effect.
GInitPrerequisites(snap) ==
  ~(~snap.hasWalletChecked \/ ~snap.isWorkletStarted \/ ~snap.biometricAuthenticated)

GInitEffectRuns(snap, g) ==
  GInitPrerequisites(snap) /\ ~g.attemptedWallet /\ ~snap.isWalletInitializing

GateHasFreeOp(g) == \E o \in OpIds : g.ops[o].kind = "none"

GateNextOp(g) ==
  CHOOSE o \in OpIds : g.ops[o].kind = "none" /\ \A u \in OpIds : u < o => g.ops[u].kind # "none"

\* The provider renders and runs the initialization effects whose
\* dependencies changed: the cleanup of the wallet check, then the bodies up
\* to their first await.  At most one body goes past its guards in a render:
\* the worklet effect only while nothing is started, the wallet check only
\* before hasWalletChecked and the wallet initialization only after it.
\* autoFetchBalances is false, so the two balance effects return at their
\* first guard.
GRender ==
  /\ ~sync.autoFetchBalances
  /\ ~sync.gate.mounted \/ sync.gate.view # GSnapshot
  /\ LET g == sync.gate
         snap == GSnapshot
         first == ~g.mounted
         workletDeps == \/ first
                        \/ snap.isInitialized # g.view.isInitialized
                        \/ snap.isLoading # g.view.isLoading
         checkDeps == \/ first
                      \/ snap.isWorkletStarted # g.view.isWorkletStarted
                      \/ snap.hasWalletChecked # g.view.hasWalletChecked
         initDeps == \/ first
                     \/ snap.hasWalletChecked # g.view.hasWalletChecked
                     \/ snap.walletKnown # g.view.walletKnown
                     \/ snap.walletExists # g.view.walletExists
                     \/ snap.isWorkletStarted # g.view.isWorkletStarted
                     \/ snap.isWalletInitializing # g.view.isWalletInitializing
                     \/ snap.biometricAuthenticated # g.view.biometricAuthenticated
         g1 == [g EXCEPT !.mounted = TRUE, !.view = snap,
                         !.ops = IF checkDeps /\ g.checkOp # 0
                                 THEN [@ EXCEPT ![g.checkOp].cancelled = TRUE] ELSE @,
                         !.checkOp = IF checkDeps THEN 0 ELSE @]
         o == GateNextOp(g1)
     IN
     IF workletDeps /\ GWorkletEffectRuns(snap, g1)
     THEN /\ HasFreeStart /\ GateHasFreeOp(g1)
          /\ store' = startWorkletStore(store)
          /\ starts' = [starts EXCEPT ![NextStart] = startWorkletTask(store, starts)]
          /\ sync' = [sync EXCEPT !.gate =
                        [g1 EXCEPT !.initializationError = "none", !.attemptedWorklet = TRUE,
                                   !.ops[o] = [FreeGateOp EXCEPT !.kind = "start",
                                                                 !.sub = NextStart]]]
          /\ UNCHANGED tasks
     ELSE IF checkDeps /\ GCheckEffectRuns(snap)
     THEN /\ GateHasFreeOp(g1)
          /\ sync' = [sync EXCEPT !.gate =
                        [g1 EXCEPT !.checkOp = o,
                                   !.ops[o] = [FreeGateOp EXCEPT !.kind = "check"]]]
          /\ UNCHANGED <<store, starts, tasks>>
     ELSE IF initDeps /\ GInitEffectRuns(snap, g1)
     THEN /\ GateHasFreeOp(g1) /\ HasFreeTask
          /\ tasks' = [tasks EXCEPT ![NextTask] =
                         InitWalletTask(HookIdentifier, ~snap.walletExists)]
          /\ sync' = [sync EXCEPT !.gate =
                        [g1 EXCEPT !.attemptedWallet = TRUE, !.walletInitError = "none",
                                   !.ops[o] = [FreeGateOp EXCEPT !.kind = "init",
                                                                 !.sub = NextTask]]]
          /\ UNCHANGED <<store, starts>>
     ELSE /\ sync' = [sync EXCEPT !.gate = g1]
          /\ UNCHANGED <<store, starts, tasks>>
  /\ UNCHANGED <<cache, storage, genCount, supplied, written>>
  /\ UNCHANGED <<walletStore, tokenConfigs, definition, runs, fetches, apiCalls>>
  /\ UNCHANGED <<machineVars, hookVars, serviceVars>>

\* initializeWorklet resumes: the startWorklet it awaits has returned or thrown.
GStartSettled(o) ==
  /\ sync.gate.ops[o].kind = "start" /\ starts[sync.gate.ops[o].sub].pc = "done"
  /\ sync' = [sync EXCEPT
                !.gate.initializationError =
                   IF starts[sync.gate.ops[o].sub].res = "failed" THEN ErrStart ELSE @,
                !.gate.ops[o] = FreeGateOp]
  /\ UNCHANGED <<cacheVars, workletVars, machineVars, hookVars, serviceVars>>
  /\ UNCHANGED <<walletStore, tokenConfigs, definition, runs, fetches, apiCalls>>

\* checkWallet resumes with the answer of hasWallet, or in its catch with
\* false: both set the two states unless the effect was cleaned up.
GCheckSettled(o, exists) ==
  /\ sync.gate.ops[o].kind = "check"
  /\ LET g == sync.gate
         g1 == IF g.ops[o].cancelled THEN g
               ELSE [g EXCEPT !.hasWalletChecked = TRUE, !.walletKnown = TRUE,
                              !.walletExists = exists]
     IN sync' = [sync EXCEPT !.gate =
                   [g1 EXCEPT !.ops[o] = FreeGateOp,
                              !.checkOp = IF @ = o THEN 0 ELSE @]]
  /\ UNCHANGED <<cacheVars, workletVars, machineVars, hookVars, serviceVars>>
  /\ UNCHANGED <<walletStore, tokenConfigs, definition, runs, fetches, apiCalls>>

GCheckResolved(o, exists) ==
  /\ exists \in HasWalletResults(storage, HookIdentifier)
  /\ GCheckSettled(o, exists)

GCheckRejected(o) ==
  /\ sync.gate.ops[o].kind = "check"
  /\ GCheckSettled(o, FALSE)

\* The consumer calls completeBiometric().
completeBiometric ==
  /\ sync.gate.mounted /\ ~sync.gate.biometricAuthenticated
  /\ sync' = [sync EXCEPT !.gate.biometricAuthenticated = TRUE]
  /\ UNCHANGED <<cacheVars, workletVars, machineVars, hookVars, serviceVars>>
  /\ UNCHANGED <<walletStore, tokenConfigs, definition, runs, fetches, apiCalls>>

\* The initializeWallet awaited by initializeWalletFlow or by retry has
\* returned or thrown; the catch records the error.
GInitSettled(o) ==
  /\ sync.gate.ops[o].kind \in {"init", "retry"}
  /\ tasks[sync.gate.ops[o].sub].pc = "done"
  /\ sync' = [sync EXCEPT
                !.gate.walletInitError =
                   IF tasks[sync.gate.ops[o].sub].res # "ok"
                   THEN tasks[sync.gate.ops[o].sub].res ELSE @,
                !.gate.ops[o] = FreeGateOp]
  /\ tasks' = [tasks EXCEPT ![sync.gate.ops[o].sub] = FreeTask]
  /\ UNCHANGED <<cache, storage, genCount, supplied, written>>
  /\ UNCHANGED <<workletVars, machineVars, hookVars, serviceVars>>
  /\ UNCHANGED <<walletStore, tokenConfigs, definition, runs, fetches, apiCalls>>

\* The consumer calls the retry of the last render: the errors and the
\* attempt flag are cleared, and initializeWallet is called when the render
\* saw the wallet check and the worklet start done.
GRetry ==
  /\ sync.gate.mounted /\ sync.gate.retries < MaxRetries
  /\ LET g == sync.gate
         g1 == [g EXCEPT !.walletInitError = "none", !.initializationError = "none",
                         !.attemptedWallet = FALSE, !.retries = @ + 1]
         o == GateNextOp(g1)
     IN
     IF ~g.view.hasWalletChecked \/ ~g.view.isWorkletStarted
     THEN /\ sync' = [sync EXCEPT !.gate = g1]
          /\ UNCHANGED tasks
     ELSE /\ GateHasFreeOp(g1) /\ HasFreeTask
          /\ tasks' = [tasks EXCEPT ![NextTask] =
                         InitWalletTask(HookIdentifier, ~g.view.walletExists)]
          /\ sync' = [sync EXCEPT !.gate =
                        [g1 EXCEPT !.attemptedWallet = TRUE,
                                   !.ops[o] = [FreeGateOp EXCEPT !.kind = "retry",
                                                                 !.sub = NextTask]]]
  /\ UNCHANGED <<cache, storage, genCount, supplied, written>>
  /\ UNCHANGED <<workletVars, machineVars, hookVars, serviceVars>>
  /\ UNCHANGED <<walletStore, tokenConfigs, definition, runs, fetches, apiCalls>>

\* A cold process with the provider about to mount, with or without the
\* biometric requirement and with autoFetchBalances off; secure storage holds
\* a wallet for the identifier, or none.
GateInit ==
  /\ cache = [k \in CacheKeys |-> AbsentEntry]
  /\ \E held \in {NoCreds, StoredWallet} :
       storage = [i \in Idents |-> IF i = HookIdentifier THEN held ELSE NoCreds]
  /\ tasks = [t \in TaskIds |-> FreeTask]
  /\ genCount = 0
  /\ supplied = [k \in CacheKeys |-> NoCreds]
  /\ written = {}
  /\ store = FreshStore
  /\ starts = [s \in StartIds |-> FreeStart]
  /\ MachineUnmounted
  /\ HookUnmounted
  /\ ServiceIdle
  /\ walletStore = EmptyWalletStore
  /\ tokenConfigs = <<[network |-> "eth", native |-> Native, tokens |-> <<"usdt">>]>>
  /\ definition = "sequential"
  /\ runs = [r \in RunIds |-> FreeRun]
  /\ fetches = [r \in RunIds |-> NoFetches]
  /\ apiCalls = 0
  /\ \E requireBiometric \in BOOLEAN :
       sync = [ProviderUnmounted(FALSE, 0) EXCEPT !.gate = GateUnmounted(requireBiometric)]

GateNext ==
  \/ GRender
  \/ \E o \in OpIds : GStartSettled(o)
  \/ \E o \in OpIds, exists \in BOOLEAN : GCheckResolved(o, exists)
  \/ \E o \in OpIds : GCheckRejected(o)
  \/ completeBiometric
  \/ \E o \in OpIds : GInitSettled(o)
  \/ GRetry
  \/ \E s \in StartIds : StartImportResolved(s)
  \/ \E s \in StartIds : StartImportFailed(s)
  \/ \E s \in StartIds : StartRpcResolved(s)
  \/ \E s \in StartIds : StartRpcRejected(s)
  \/ \E t \in TaskIds, authenticated \in BOOLEAN : CreateAuthReturned(t, authenticated)
  \/ \E t \in TaskIds : CreateGenReturned(t)
  \/ \E t \in TaskIds : CreateGenRejected(t)
  \/ \E t \in TaskIds : CreateWriteDone(t)
  \/ \E t \in TaskIds : CreateWriteRejected(t)
  \/ \E t \in TaskIds : LoadSeedReturned(t)
  \/ \E t \in TaskIds : LoadAllReturned(t)
  \/ \E t \in TaskIds : LoadAllRejected(t)
  \/ \E t \in TaskIds : InitWalletCredentials(t)
  \/ \E t \in TaskIds : InitWdkResolved(t)
  \/ \E t \in TaskIds : InitWdkRejected(t)

GateSpec == GateInit /\ [][GateNext]_vars

\* The last render is current and the wallet-init effect is held back by
\* nothing but the biometric guard: the wallet check and the worklet start are
\* done, no attempt was made and none is running.
HeldByBiometricOnly ==
  /\ sync.gate.mounted /\ sync.gate.view = GSnapshot
  /\ sync.gate.requireBiometric
  /\ ~sync.gate.view.biometricAuthenticated
  /\ GInitPrerequisites([sync.gate.view EXCEPT !.biometricAuthenticated = TRUE])
  /\ GInitEffectRuns([sync.gate.view EXCEPT !.biometricAuthenticated = TRUE], sync.gate)

\* C40: with requireBiometric = true, whenever wallet initialization is held
\* back only because biometric authentication has not been completed,
\* needsBiometric is true, whether the wallet exists or not.
C40_BiometricGateSignalled ==
  HeldByBiometricOnly => needsBiometric(sync.gate.requireBiometric, sync.gate.view)

====
